---- MODULE Spec2Model ----
(***************************************************************************)
(* SkeletonKey: an LD_PRELOAD shim that wraps the pthread primitives, logs *)
(* one varint-encoded record per event (src/src/skeletonkey.cpp), and a    *)
(* decoder that reads the trace back (src/src/reader.cpp).                 *)
(***************************************************************************)
EXTENDS Integers, Sequences, FiniteSets, TLC

(***************************************************************************)
(* 64-bit unsigned values.  TLC integers are 32 bits wide, so a uint64_t   *)
(* is kept as three limbs <<lo, mid, hi>>: bits 0..27, bits 28..55 and     *)
(* bits 56..63.  The limb width is a multiple of 7, so the codec's "& 0x7F"*)
(* and ">> 7" are exact on limbs.                                          *)
(***************************************************************************)
LimbBits == 4 * 7

Limb == 2 ^ LimbBits

HiLimb == 2 ^ 8

IsU64(u) == /\ u \in Seq(Int)
            /\ Len(u) = 3
            /\ u[1] \in 0 .. Limb - 1
            /\ u[2] \in 0 .. Limb - 1
            /\ u[3] \in 0 .. HiLimb - 1

\* The conversion of a small non-negative integer (uint32_t, int, pointer)
\* to uint64_t.
Nat64(n) == <<n % Limb, n \div Limb, 0>>

U64Zero == <<0, 0, 0>>

U64Max == <<Limb - 1, Limb - 1, HiLimb - 1>>

\* A conversion that does not extend the sign, to compare against:
\* static_cast<uint64_t>(static_cast<uint32_t>(r)).
ZeroExtend64(r) ==
    IF r >= 0 THEN Nat64(r)
    ELSE LET m == Nat64((-r) - 1)
         IN  <<(Limb - 1) - m[1], 15 - m[2], 0>>

\* static_cast<uint64_t>(int32_t): sign extension, as a two's-complement
\* reinterpretation.  For r < 0 the result is the bitwise complement of
\* -r - 1 over 64 bits.
SignExtend64(r) ==
    IF r >= 0 THEN Nat64(r)
    ELSE LET m == Nat64((-r) - 1)
         IN  <<(Limb - 1) - m[1], (Limb - 1) - m[2], (HiLimb - 1) - m[3]>>

\* uint32_t x = <uint64_t>: keeps bits 0..31.
Trunc32(u) == <<u[1], u[2] % 16, 0>>

\* int32_t x = <uint64_t>: keeps bits 0..31 and reads them as two's complement.
ToInt32(u) ==
    LET top == u[2] % 16
    IN  IF top >= 8 THEN u[1] + (top - 16) * Limb ELSE u[1] + top * Limb

RECURSIVE BitOr(_, _)
BitOr(a, b) ==
    IF a = 0 THEN b
    ELSE IF b = 0 THEN a
    ELSE (IF a % 2 = 1 \/ b % 2 = 1 THEN 1 ELSE 0)
            + 2 * BitOr(a \div 2, b \div 2)

\* a | b on uint64_t
Or64(a, b) == <<BitOr(a[1], b[1]), BitOr(a[2], b[2]), BitOr(a[3], b[3])>>

\* value & 0x7F
Low7(u) == u[1] % 128

\* value >> 7
Shr7(u) == << (u[1] \div 128) + (u[2] % 128) * (Limb \div 128),
              (u[2] \div 128) + (u[3] % 128) * (Limb \div 128),
              u[3] \div 128 >>

\* static_cast<uint64_t>(x) << shift for a 7-bit x and a shift that is a
\* multiple of 7 below 64; bits shifted past bit 63 are lost.
Shl7(x, shift) ==
    LET g == shift \div 7
        o == 2 ^ ((g % 4) * 7)
    IN  IF g \div 4 = 0 THEN <<x * o, 0, 0>>
        ELSE IF g \div 4 = 1 THEN <<0, x * o, 0>>
        ELSE <<0, 0, (x * o) % HiLimb>>

\* a - b on uint64_t, modulo 2^64
Sub64(a, b) ==
    LET lo == a[1] - b[1]
        b1 == IF lo < 0 THEN 1 ELSE 0
        mi == a[2] - b[2] - b1
        b2 == IF mi < 0 THEN 1 ELSE 0
        hi == a[3] - b[3] - b2
    IN  <<lo + b1 * Limb, mi + b2 * Limb, hi + (IF hi < 0 THEN HiLimb ELSE 0)>>

(***************************************************************************)
(* VarIntWriter (skeletonkey.cpp:73-125)                                   *)
(***************************************************************************)
MAX_STACK_DEPTH == 16

\* A faulty encoder, to compare against: it never sets the continuation bit.
RECURSIVE encodeNoContinuation(_)
encodeNoContinuation(value) ==
    LET byte == Low7(value)
        rest == Shr7(value)
    IN  IF rest # U64Zero THEN <<byte>> \o encodeNoContinuation(rest)
        ELSE <<byte>>

RECURSIVE encodeVarInt(_)
encodeVarInt(value) ==
    LET byte == Low7(value)
        rest == Shr7(value)
    IN  IF rest # U64Zero THEN <<byte + 128>> \o encodeVarInt(rest)
        ELSE <<byte>>

writeType(type) == <<type>>

writePtr(ptr) == encodeVarInt(ptr)

RECURSIVE writeStackLoop(_, _, _)
writeStackLoop(stack, i, depth) ==
    IF i < depth THEN encodeVarInt(stack[i + 1]) \o writeStackLoop(stack, i + 1, depth)
    ELSE <<>>

\* A faulty writer, to compare against: the length prefix is always the
\* capacity of the array.
writeStackCapacity(stack, depth) ==
    encodeVarInt(Nat64(MAX_STACK_DEPTH)) \o writeStackLoop(stack, 0, depth)

writeStack(stack, depth) == encodeVarInt(Nat64(depth)) \o writeStackLoop(stack, 0, depth)

(***************************************************************************)
(* VarIntReader (reader.cpp:55-108).  A read returns the value, the new    *)
(* pos_ and whether the read left defined behaviour: ub is set by a shift  *)
(* of 64 or more and by an index past the end of buffer_.                  *)
(***************************************************************************)
RECURSIVE readVarIntLoop(_, _, _, _)
readVarIntLoop(buffer, pos, result, shift) ==
    IF pos < Len(buffer)
    THEN LET byte == buffer[pos + 1]
         IN  CHOOSE rec \in
               { IF byte \div 128 = 0
                 THEN [value |-> r2, pos |-> pos + 1, ub |-> shift >= 64]
                 ELSE [readVarIntLoop(buffer, pos + 1, r2, shift + 7)
                          EXCEPT !.ub = @ \/ shift >= 64]
                 : r2 \in {IF shift < 64 THEN Or64(result, Shl7(byte % 128, shift))
                                        ELSE result} } : TRUE
    ELSE [value |-> result, pos |-> pos, ub |-> FALSE]

readVarInt(buffer, pos) ==
    CHOOSE rec \in { readVarIntLoop(buffer, p, U64Zero, 0) : p \in {pos} } : TRUE

\* buffer_[pos_++] with no bounds check: past the end the byte read is
\* whatever lies behind the vector (oob names it).
readEventType(buffer, pos, oob) ==
    CHOOSE rec \in { IF p < Len(buffer)
                     THEN [value |-> buffer[p + 1], pos |-> p + 1, ub |-> FALSE]
                     ELSE [value |-> oob, pos |-> p + 1, ub |-> TRUE]
                     : p \in {pos} } : TRUE

readPtr(buffer, pos) == readVarInt(buffer, pos)

\* One turn of readStack's loop: stack.push_back(readPtr()).
readStackPush(buffer, acc) ==
    CHOOSE a \in { [acc EXCEPT !.value = Append(@, r.value),
                               !.pos = r.pos,
                               !.ub = @ \/ r.ub] : r \in {readPtr(buffer, acc.pos)} } : TRUE

RECURSIVE readStackLoop(_, _, _, _)
readStackLoop(buffer, i, depth, acc) ==
    IF i < depth
    THEN CHOOSE st \in { readStackLoop(buffer, i + 1, depth, a)
                           : a \in {readStackPush(buffer, acc)} } : TRUE
    ELSE acc

eof(buffer, pos) == pos >= Len(buffer)


\* Addresses the decoder's memory has room for in one stack.
MaxReserve == 48

\* readStack (reader.cpp:91-102): uint32_t depth = readVarInt(), then
\* stack.reserve(depth), which throws std::bad_alloc when there is no room
\* for depth addresses, and depth reads of a pointer.
readStack(buffer, pos) ==
    CHOOSE st \in
      { IF Trunc32(d.value)[2] > 0 \/ Trunc32(d.value)[1] > MaxReserve
        THEN [value |-> <<>>, pos |-> d.pos, ub |-> d.ub, bad_alloc |-> TRUE]
        ELSE readStackLoop(buffer, 0, Trunc32(d.value)[1],
                           [value |-> <<>>, pos |-> d.pos, ub |-> d.ub,
                            bad_alloc |-> FALSE])
        : d \in {readVarInt(buffer, pos)} } : TRUE

(***************************************************************************)
(* One record.  An event holds its 64-bit fields as limbs, its kind as the *)
(* enum's byte and its result as a signed 32-bit integer.                  *)
(***************************************************************************)
\* EventLogger::log, skeletonkey.cpp:171-174
SerializeHead(ev) ==
    encodeVarInt(ev.timestamp) \o encodeVarInt(ev.tid) \o writeType(ev.type)

\* A faulty serialization, to compare against: ptr2 is written before ptr1.
SerializeBodySwapped(ev) ==
    writePtr(ev.ptr2) \o writePtr(ev.ptr1)
        \o encodeVarInt(SignExtend64(ev.result))
        \o encodeVarInt(ev.duration_ns)
        \o writeStack(ev.stack, Len(ev.stack))

\* EventLogger::log, skeletonkey.cpp:175-179
SerializeBody(ev) ==
    writePtr(ev.ptr1) \o writePtr(ev.ptr2)
        \o encodeVarInt(SignExtend64(ev.result))
        \o encodeVarInt(ev.duration_ns)
        \o writeStack(ev.stack, Len(ev.stack))

Serialize(ev) == SerializeHead(ev) \o SerializeBody(ev)

\* The body of the decoder's record loop, reader.cpp:212-220.  The reads
\* are listed from the last to the first: each is made once, at the
\* position the read before it has left.
ReadRecord(buffer, pos, oob) ==
    CHOOSE r1 \in { CHOOSE r2 \in { CHOOSE r3 \in { CHOOSE r4 \in {
    CHOOSE r5 \in { CHOOSE r6 \in { CHOOSE r7 \in { CHOOSE r8 \in {
        [event |-> [timestamp   |-> ts.value,
                    tid         |-> Trunc32(tid.value),
                    type        |-> ty.value,
                    ptr1        |-> p1.value,
                    ptr2        |-> p2.value,
                    result      |-> ToInt32(res.value),
                    duration_ns |-> dur.value,
                    stack       |-> st.value],
         pos   |-> st.pos,
         ub    |-> ts.ub \/ tid.ub \/ ty.ub \/ p1.ub \/ p2.ub \/ res.ub \/ dur.ub \/ st.ub,
         bad_alloc |-> st.bad_alloc]
        : st  \in {readStack(buffer, dur.pos)} } : TRUE
        : dur \in {readVarInt(buffer, res.pos)} } : TRUE
        : res \in {readVarInt(buffer, p2.pos)} } : TRUE
        : p2  \in {readPtr(buffer, p1.pos)} } : TRUE
        : p1  \in {readPtr(buffer, ty.pos)} } : TRUE
        : ty  \in {readEventType(buffer, tid.pos, oob)} } : TRUE
        : tid \in {readVarInt(buffer, ts.pos)} } : TRUE
        : ts  \in {readVarInt(buffer, pos)} } : TRUE

(***************************************************************************)
(* enum class EventType (skeletonkey.cpp:16-57, reader.cpp:12-53)          *)
(***************************************************************************)
EventType ==
    [ThreadCreate |-> 0,
     MutexInit |-> 1, MutexDestroy |-> 2, MutexLock |-> 3, MutexLockDone |-> 4,
     MutexTryLock |-> 5, MutexTryLockDone |-> 6, MutexTimedLock |-> 7,
     MutexTimedLockDone |-> 8, MutexUnlock |-> 9,
     RWLockInit |-> 10, RWLockDestroy |-> 11, RWLockRead |-> 12, RWLockReadDone |-> 13,
     RWLockTryRead |-> 14, RWLockTryReadDone |-> 15, RWLockTimedRead |-> 16,
     RWLockTimedReadDone |-> 17, RWLockWrite |-> 18, RWLockWriteDone |-> 19,
     RWLockTryWrite |-> 20, RWLockTryWriteDone |-> 21, RWLockTimedWrite |-> 22,
     RWLockTimedWriteDone |-> 23, RWLockUnlock |-> 24,
     CondInit |-> 25, CondDestroy |-> 26, CondSignal |-> 27, CondBroadcast |-> 28,
     CondWait |-> 29, CondWaitDone |-> 30, CondTimedWait |-> 31,
     CondTimedWaitDone |-> 32]

ValidEventTypes == 0 .. 32

\* The kinds logged before the real call, and the kind that answers each.
PreEventTypes == {3, 5, 7, 12, 14, 16, 18, 20, 22, 29, 31}

DoneOf(pre) == pre + 1

NoEvent == 0 - 1

(***************************************************************************)
(* The interposed functions (skeletonkey.cpp:290-676).  Each wrapper is    *)
(* described by its name and what its body does: the real_ pointer it     *)
(* calls (each calls the one of its own name), the kind                    *)
(* it logs before the real call (NoEvent when it logs none, and then it    *)
(* takes no start time), the kind it logs after, the object its first      *)
(* argument points to, and whether the log calls pass the second argument  *)
(* as ptr2 (otherwise nullptr).                                            *)
(***************************************************************************)
Wrapper(sym, pre, post, obj, aux) ==
    [name |-> sym, sym |-> sym, pre |-> pre, post |-> post, obj |-> obj, aux |-> aux]

pthread_mutex_init ==
    Wrapper("pthread_mutex_init", NoEvent, EventType.MutexInit, "mutex", FALSE)

pthread_mutex_destroy ==
    Wrapper("pthread_mutex_destroy", NoEvent, EventType.MutexDestroy, "mutex", FALSE)

pthread_mutex_lock ==
    Wrapper("pthread_mutex_lock", EventType.MutexLock, EventType.MutexLockDone,
            "mutex", FALSE)

pthread_mutex_trylock ==
    Wrapper("pthread_mutex_trylock", EventType.MutexTryLock, EventType.MutexTryLockDone,
            "mutex", FALSE)

pthread_mutex_timedlock ==
    Wrapper("pthread_mutex_timedlock", EventType.MutexTimedLock,
            EventType.MutexTimedLockDone, "mutex", FALSE)

pthread_mutex_unlock ==
    Wrapper("pthread_mutex_unlock", NoEvent, EventType.MutexUnlock, "mutex", FALSE)

pthread_cond_init ==
    Wrapper("pthread_cond_init", NoEvent, EventType.CondInit, "cond", FALSE)

pthread_cond_destroy ==
    Wrapper("pthread_cond_destroy", NoEvent, EventType.CondDestroy, "cond", FALSE)

pthread_cond_signal ==
    Wrapper("pthread_cond_signal", NoEvent, EventType.CondSignal, "cond", FALSE)

pthread_cond_broadcast ==
    Wrapper("pthread_cond_broadcast", NoEvent, EventType.CondBroadcast, "cond", FALSE)

pthread_cond_wait ==
    Wrapper("pthread_cond_wait", EventType.CondWait, EventType.CondWaitDone, "cond", TRUE)

pthread_cond_timedwait ==
    Wrapper("pthread_cond_timedwait", EventType.CondTimedWait,
            EventType.CondTimedWaitDone, "cond", TRUE)

pthread_rwlock_init ==
    Wrapper("pthread_rwlock_init", NoEvent, EventType.RWLockInit, "rwlock", FALSE)

pthread_rwlock_destroy ==
    Wrapper("pthread_rwlock_destroy", NoEvent, EventType.RWLockDestroy, "rwlock", FALSE)

pthread_rwlock_rdlock ==
    Wrapper("pthread_rwlock_rdlock", EventType.RWLockRead, EventType.RWLockReadDone,
            "rwlock", FALSE)

pthread_rwlock_tryrdlock ==
    Wrapper("pthread_rwlock_tryrdlock", EventType.RWLockTryRead,
            EventType.RWLockTryReadDone, "rwlock", FALSE)

pthread_rwlock_timedrdlock ==
    Wrapper("pthread_rwlock_timedrdlock", EventType.RWLockTimedRead,
            EventType.RWLockTimedReadDone, "rwlock", FALSE)

pthread_rwlock_wrlock ==
    Wrapper("pthread_rwlock_wrlock", EventType.RWLockWrite, EventType.RWLockWriteDone,
            "rwlock", FALSE)

pthread_rwlock_trywrlock ==
    Wrapper("pthread_rwlock_trywrlock", EventType.RWLockTryWrite,
            EventType.RWLockTryWriteDone, "rwlock", FALSE)

pthread_rwlock_timedwrlock ==
    Wrapper("pthread_rwlock_timedwrlock", EventType.RWLockTimedWrite,
            EventType.RWLockTimedWriteDone, "rwlock", FALSE)

pthread_rwlock_unlock ==
    Wrapper("pthread_rwlock_unlock", NoEvent, EventType.RWLockUnlock, "rwlock", FALSE)

pthread_create ==
    Wrapper("pthread_create", NoEvent, EventType.ThreadCreate, "thread", FALSE)

Wrappers ==
    {pthread_mutex_init, pthread_mutex_destroy, pthread_mutex_lock,
     pthread_mutex_trylock, pthread_mutex_timedlock, pthread_mutex_unlock,
     pthread_cond_init, pthread_cond_destroy, pthread_cond_signal,
     pthread_cond_broadcast, pthread_cond_wait, pthread_cond_timedwait,
     pthread_rwlock_init, pthread_rwlock_destroy, pthread_rwlock_rdlock,
     pthread_rwlock_tryrdlock, pthread_rwlock_timedrdlock, pthread_rwlock_wrlock,
     pthread_rwlock_trywrlock, pthread_rwlock_timedwrlock, pthread_rwlock_unlock,
     pthread_create}

Symbols == {w.name : w \in Wrappers}

IsBlocking(w) == w.pre # NoEvent


(***************************************************************************)
(* The target process: its threads, the objects it passes to the pthread   *)
(* functions, and the bounds of the runs explored.                         *)
(***************************************************************************)
\* Thread 1 is the main thread; thread 2 exists once a pthread_create has
\* succeeded.  A thread's number is also what gettid() returns for it.
Threads == {1, 2}

MainThread == CHOOSE t \in Threads : \A u \in Threads : t <= u

NoThread == 0

\* Wrapped calls the target (signal handlers included) makes in one run.
MaxCalls == 2

\* Call frames of the shim one thread can have open at once.
MaxDepth == 4

\* Addresses: the logger's write_mutex_, the target's mutex, condition
\* variable, rwlock and pthread_t, an attribute / abstime / start routine
\* argument, and a second mutex of the target.
Addr == [write_mutex_ |-> 64, mutex |-> 200, cond |-> 33, rwlock |-> 34,
         thread |-> 35, other |-> 36, mutex_b |-> 201]

Mutexes == {Addr.write_mutex_, Addr.mutex, Addr.mutex_b}

\* errno values the real functions return
Errno == [EPERM |-> 1, EAGAIN |-> 11, EBUSY |-> 16, EINVAL |-> 22, ETIMEDOUT |-> 110]

\* The arguments the target passes to each function, first to last.
TargetArgs(w) ==
    CASE w.sym \in {"pthread_cond_wait"} -> <<Addr.cond, Addr.mutex>>
      [] w.sym \in {"pthread_cond_timedwait"} -> <<Addr.cond, Addr.mutex, Addr.other>>
      [] w.sym \in {"pthread_create"} -> <<Addr.thread, 0, Addr.other, 0>>
      [] w.sym \in {"pthread_mutex_init", "pthread_cond_init", "pthread_rwlock_init",
                    "pthread_mutex_timedlock", "pthread_rwlock_timedrdlock",
                    "pthread_rwlock_timedwrlock"} -> <<Addr[w.obj], Addr.other>>
      [] OTHER -> <<Addr[w.obj]>>

\* What one run's target calls besides pthread_create: one function that
\* logs a pre-event and one that does not.
Scenarios ==
    {{pthread_mutex_lock, pthread_mutex_unlock},
     {pthread_mutex_trylock, pthread_mutex_init},
     {pthread_mutex_timedlock, pthread_mutex_destroy},
     {pthread_rwlock_rdlock, pthread_rwlock_unlock},
     {pthread_rwlock_tryrdlock, pthread_rwlock_init},
     {pthread_rwlock_timedrdlock, pthread_rwlock_destroy},
     {pthread_rwlock_wrlock, pthread_cond_init},
     {pthread_rwlock_trywrlock, pthread_cond_destroy},
     {pthread_rwlock_timedwrlock, pthread_cond_broadcast},
     {pthread_cond_wait, pthread_cond_signal},
     {pthread_cond_timedwait, pthread_cond_signal}}

\* Return addresses of the target below the shim: the main thread calls
\* from main, the other thread from a deep call chain.
TargetFrames(t) ==
    IF t = MainThread THEN <<100>> ELSE [i \in 1 .. 15 |-> 100 + i]

VARIABLES
    real_,            \* the real_pthread_* pointers that are not null
    initialized_,     \* EventLogger::initialized_
    log_open,         \* whether log_ is open on the output file
    init_pc,          \* EventLogger::init: "idle", "open" (before log_.open) or "done"
    mutex_owner,      \* the real mutexes: the thread holding each, or NoThread
    writer_,          \* EventLogger::writer_.buffer
    file,             \* the bytes of the output file
    clock,            \* std::chrono::steady_clock
    in_hook,          \* the thread_local in_hook of each thread
    stack,            \* each thread's open shim frames, innermost last
    started,          \* the threads that exist
    scenario,         \* the functions this run's target calls
    ncalls,           \* calls made by the target so far
    appended,         \* history: the events handed to log_.write, in order
    program,          \* history: per thread, the top-level calls begun, in order
    last_ret,         \* history: per thread, the last wrapper invocation that returned
    buffer_,          \* VarIntReader::buffer_
    pos_,             \* VarIntReader::pos_
    first_timestamp,  \* reader.cpp main: first_timestamp
    out,              \* the events the decoder has printed
    elapsed,          \* per printed event, timestamp - first_timestamp (reader.cpp:223)
    rstate,           \* the decoder: "closed", "loop", "exit0", "crashed", "aborted"
    r_oob,            \* history: the decoder indexed buffer_ past its end
    value,            \* a uint64_t handed to VarIntWriter::write
    decoded           \* what VarIntReader::readVarInt returned for it

shimVars == <<real_, initialized_, log_open, init_pc, mutex_owner, writer_, clock, in_hook,
              stack, started, scenario, ncalls, program, last_ret>>

traceVars == <<file, appended>>

readerVars == <<buffer_, pos_, first_timestamp, out, elapsed, rstate, r_oob>>

codecVars == <<value, decoded>>

vars == <<shimVars, traceVars, readerVars, codecVars>>

Last(s) == s[Len(s)]

AllButLast(s) == SubSeq(s, 1, Len(s) - 1)

NoRet == [name |-> ""]


(***************************************************************************)
(* The real implementations behind the real_ pointers.  A mutex is held by *)
(* at most one thread: lock waits until it is free, trylock and timedlock  *)
(* give up with an error, unlock by another thread than the owner fails.   *)
(* Every other function returns 0 or an error.  Handed a null object, a    *)
(* real function that comes back at all comes back with EINVAL.            *)
(***************************************************************************)
RealEnabled(t, sym, args) ==
    (sym = "pthread_mutex_lock" /\ args[1] # 0) => mutex_owner[args[1]] = NoThread

RealResults(t, sym, args) ==
    CASE args[1] = 0 -> {Errno.EINVAL}
      [] sym = "pthread_mutex_lock" -> {0}
      [] sym = "pthread_mutex_trylock" ->
            IF mutex_owner[args[1]] = NoThread THEN {0} ELSE {Errno.EBUSY}
      [] sym = "pthread_mutex_timedlock" ->
            IF mutex_owner[args[1]] = NoThread THEN {0} ELSE {Errno.ETIMEDOUT}
      [] sym = "pthread_mutex_unlock" ->
            IF mutex_owner[args[1]] = t THEN {0} ELSE {Errno.EPERM}
      [] sym = "pthread_create" -> {0, Errno.EAGAIN}
      [] OTHER -> {0, Errno.EINVAL}

RealOwner(t, sym, args, res) ==
    IF res = 0 /\ sym \in {"pthread_mutex_lock", "pthread_mutex_trylock",
                           "pthread_mutex_timedlock"}
    THEN [mutex_owner EXCEPT ![args[1]] = t]
    ELSE IF res = 0 /\ sym = "pthread_mutex_unlock"
    THEN [mutex_owner EXCEPT ![args[1]] = NoThread]
    ELSE mutex_owner

RealStarted(sym, res) ==
    IF sym = "pthread_create" /\ res = 0 THEN Threads ELSE started

(***************************************************************************)
(* Frames.  A thread inside the shim has a stack of frames: a wrapper      *)
(* frame for each interposed function entered and a log frame for each     *)
(* EventLogger::log entered.  A caller's pc is moved to its continuation   *)
(* when it calls, so a return only pops.                                   *)
(***************************************************************************)
\* nested, nreal, realsym, realargs, realret and f0 are history: whether
\* in_hook was set on entry, the calls made through real_ pointers, and the
\* length of the file on entry.
WrapperFrame(w, args, src, pc, start, nested, f0) ==
    [fn |-> "wrapper", w |-> w, args |-> args, src |-> src, pc |-> pc,
     start |-> start, result |-> 0, nested |-> nested, nreal |-> 0,
     realsym |-> "", realargs |-> <<>>, realret |-> 0, f0 |-> f0]

NoEv == [type |-> NoEvent]

LogFrame(type, ptr1, ptr2, result, duration_ns) ==
    [fn |-> "log", pc |-> "lock", type |-> type, ptr1 |-> ptr1, ptr2 |-> ptr2,
     result |-> result, duration_ns |-> duration_ns, ev |-> NoEv]

Top(t) == Last(stack[t])

InWrapper(t, pc) ==
    /\ t \in started
    /\ stack[t] # <<>>
    /\ Top(t).fn = "wrapper"
    /\ Top(t).pc = pc

InLog(t, pc) ==
    /\ t \in started
    /\ stack[t] # <<>>
    /\ Top(t).fn = "log"
    /\ Top(t).pc = pc

SetTop(stk, f) == [stk EXCEPT ![Len(stk)] = f]

\* Leaving a frame.  The lock_guard's destructor is the last thing log
\* does, so when the unlock it called returns, log returns too.
Pop(stk) ==
    LET s1 == AllButLast(stk)
    IN  IF s1 # <<>> /\ Last(s1).fn = "log" /\ Last(s1).pc = "ret"
        THEN AllButLast(s1)
        ELSE s1

\* A faulty wrapper, to compare against: it passes nullptr as ptr2 always.
NoPtr2(w, args) == 0

\* A faulty wrapper, to compare against: outside the condition waits it
\* passes its first argument as ptr2 too.
Ptr2Object(w, args) == IF w.aux THEN args[2] ELSE args[1]

\* What a wrapper passes to log as ptr2: its second argument in the two
\* condition waits, nullptr everywhere else.
Ptr2Of(w, args) == IF w.aux THEN args[2] ELSE 0

\* A faulty wrapper entry, to compare against: in_hook is not looked at, the
\* logging path is taken on every call.
EnterUnguarded(t, stk, w, args, src) ==
    /\ in_hook' = [in_hook EXCEPT ![t] = TRUE]
    /\ program' = [program EXCEPT ![t] = Append(@, [w |-> w, args |-> args])]
    /\ stack' = [stack EXCEPT ![t] =
            Append(stk, WrapperFrame(w, args, src, IF IsBlocking(w) THEN "pre" ELSE "real",
                                     clock, in_hook[t], Len(file)))]
    /\ clock' = clock + 1

\* A faulty wrapper entry, to compare against: one in_hook flag for the
\* whole process instead of one per thread.
EnterSharedFlag(t, stk, w, args, src) ==
    LET flag == \E u \in Threads : in_hook[u]
    IN  IF flag
        THEN /\ stack' = [stack EXCEPT ![t] =
                    Append(stk, WrapperFrame(w, args, src, "guarded", 0, TRUE, Len(file)))]
             /\ UNCHANGED <<in_hook, clock, program>>
        ELSE /\ in_hook' = [in_hook EXCEPT ![t] = TRUE]
             /\ program' = [program EXCEPT ![t] = Append(@, [w |-> w, args |-> args])]
             /\ stack' = [stack EXCEPT ![t] =
                    Append(stk, WrapperFrame(w, args, src,
                                             IF IsBlocking(w) THEN "pre" ELSE "real",
                                             clock, FALSE, Len(file)))]
             /\ clock' = clock + 1

\* A faulty wrapper entry, to compare against: in_hook is looked at but
\* never set.
EnterNoFlag(t, stk, w, args, src) ==
    /\ stack' = [stack EXCEPT ![t] =
            Append(stk, WrapperFrame(w, args, src,
                                     IF in_hook[t] THEN "guarded"
                                     ELSE IF IsBlocking(w) THEN "pre" ELSE "real",
                                     clock, in_hook[t], Len(file)))]
    /\ program' = [program EXCEPT ![t] =
            IF in_hook[t] THEN @ ELSE Append(@, [w |-> w, args |-> args])]
    /\ clock' = clock + 1
    /\ UNCHANGED in_hook

\* The first lines of every wrapper (pthread_mutex_lock, skeletonkey.cpp:317-320):
\*   if (in_hook) return real_...;  in_hook = true;  [auto start = now();]
\* stk is the caller's stack, the new frame goes on top of it.
Enter(t, stk, w, args, src) ==
    IF in_hook[t]
    THEN /\ stack' = [stack EXCEPT ![t] =
                        Append(stk, WrapperFrame(w, args, src, "guarded", 0, TRUE, Len(file)))]
         /\ UNCHANGED <<in_hook, clock, program>>
    ELSE /\ in_hook' = [in_hook EXCEPT ![t] = TRUE]
         /\ program' = [program EXCEPT ![t] = Append(@, [w |-> w, args |-> args])]
         /\ IF IsBlocking(w)
            THEN /\ stack' = [stack EXCEPT ![t] =
                        Append(stk, WrapperFrame(w, args, src, "pre", clock, FALSE, Len(file)))]
                 /\ clock' = clock + 1
            ELSE /\ stack' = [stack EXCEPT ![t] =
                        Append(stk, WrapperFrame(w, args, src, "real", 0, FALSE, Len(file)))]
                 /\ UNCHANGED clock

\* EventLogger::log's first line (skeletonkey.cpp:154): return at once when
\* not initialized, otherwise go on to take the lock.
CallLog(stk, type, ptr1, ptr2, result, duration_ns) ==
    IF ~initialized_ THEN stk
    ELSE Append(stk, LogFrame(type, ptr1, ptr2, result, duration_ns))


\* backtrace(stack.data(), MAX_STACK_DEPTH) as called from log: the return
\* addresses of the thread's frames, innermost first, at most 16 of them.
FrameAddr(f) == IF f.fn = "log" THEN 1 ELSE 2 + f.w.post

Backtrace(t, stk) ==
    LET n   == Len(stk)
        all == [i \in 1 .. n |-> FrameAddr(stk[n + 1 - i])] \o TargetFrames(t)
        d   == IF Len(all) < MAX_STACK_DEPTH THEN Len(all) ELSE MAX_STACK_DEPTH
    IN  [i \in 1 .. d |-> Nat64(all[i])]

\* syscall(SYS_gettid)
Gettid(t) == t

shimFrame == <<real_, initialized_, log_open, init_pc, scenario>>

(***************************************************************************)
(* The target calls an interposed function: from its own code when the     *)
(* thread is outside the shim, from a signal handler that interrupts the   *)
(* thread inside the shim, and the shim itself through the lock_guard in   *)
(* EventLogger::log, whose std::mutex locks with pthread_mutex_lock.       *)
(***************************************************************************)
TargetCall(t, w) ==
    /\ t \in started
    /\ stack[t] = <<>>
    /\ ncalls < MaxCalls
    /\ w \in scenario \cup {pthread_create}
    /\ Enter(t, stack[t], w, TargetArgs(w), "target")
    /\ ncalls' = ncalls + 1
    /\ UNCHANGED <<shimFrame, mutex_owner, writer_, started, last_ret>>
    /\ UNCHANGED <<traceVars, readerVars, codecVars>>

SignalCall(t, w) ==
    /\ t \in started
    /\ stack[t] # <<>>
    /\ Len(stack[t]) < MaxDepth
    /\ ncalls < MaxCalls
    /\ w \in scenario
    /\ Enter(t, stack[t], w, TargetArgs(w), "signal")
    /\ ncalls' = ncalls + 1
    /\ UNCHANGED <<shimFrame, mutex_owner, writer_, started, last_ret>>
    /\ UNCHANGED <<traceVars, readerVars, codecVars>>

\* A faulty log, to compare against: it goes on without the lock_guard's lock.
LogNoLock(t) ==
    /\ InLog(t, "lock")
    /\ stack' = [stack EXCEPT ![t] = SetTop(@, [Top(t) EXCEPT !.pc = "fill"])]
    /\ UNCHANGED <<shimFrame, mutex_owner, writer_, clock, in_hook, started, ncalls,
                   program, last_ret>>
    /\ UNCHANGED <<traceVars, readerVars, codecVars>>

\* std::lock_guard<std::mutex> lock(write_mutex_), skeletonkey.cpp:156
LogLockCall(t) ==
    /\ InLog(t, "lock")
    /\ Len(stack[t]) < MaxDepth
    /\ Enter(t, SetTop(stack[t], [Top(t) EXCEPT !.pc = "fill"]),
             pthread_mutex_lock, <<Addr.write_mutex_>>, "lock_guard")
    /\ UNCHANGED <<shimFrame, mutex_owner, writer_, started, ncalls, last_ret>>
    /\ UNCHANGED <<traceVars, readerVars, codecVars>>

\* A faulty log, to compare against: the duration is written where the
\* timestamp belongs.
LogFillDuration(t) ==
    /\ InLog(t, "fill")
    /\ LET f  == Top(t)
           ev == [timestamp   |-> Nat64(f.duration_ns),
                  tid         |-> Nat64(Gettid(t)),
                  type        |-> f.type,
                  ptr1        |-> Nat64(f.ptr1),
                  ptr2        |-> Nat64(f.ptr2),
                  result      |-> f.result,
                  duration_ns |-> Nat64(f.duration_ns),
                  stack       |-> Backtrace(t, stack[t])]
       IN  /\ writer_' = SerializeHead(ev)
           /\ stack' = [stack EXCEPT ![t] = SetTop(@, [f EXCEPT !.pc = "body", !.ev = ev])]
    /\ clock' = clock + 1
    /\ UNCHANGED <<shimFrame, mutex_owner, in_hook, started, ncalls, program, last_ret>>
    /\ UNCHANGED <<traceVars, readerVars, codecVars>>

\* A faulty log, to compare against: each thread reads a clock of its own,
\* and the clocks of two threads are apart.
LogFillSkewed(t) ==
    /\ InLog(t, "fill")
    /\ LET f  == Top(t)
           ev == [timestamp   |-> Nat64(clock + 8 * (IF t = MainThread THEN 1 ELSE 0)),
                  tid         |-> Nat64(Gettid(t)),
                  type        |-> f.type,
                  ptr1        |-> Nat64(f.ptr1),
                  ptr2        |-> Nat64(f.ptr2),
                  result      |-> f.result,
                  duration_ns |-> Nat64(f.duration_ns),
                  stack       |-> Backtrace(t, stack[t])]
       IN  /\ writer_' = SerializeHead(ev)
           /\ stack' = [stack EXCEPT ![t] = SetTop(@, [f EXCEPT !.pc = "body", !.ev = ev])]
    /\ clock' = clock + 1
    /\ UNCHANGED <<shimFrame, mutex_owner, in_hook, started, ncalls, program, last_ret>>
    /\ UNCHANGED <<traceVars, readerVars, codecVars>>

\* backtrace, the clock, gettid, writer_.clear() and the first three
\* fields, skeletonkey.cpp:157-174
LogFill(t) ==
    /\ InLog(t, "fill")
    /\ LET f  == Top(t)
           ev == [timestamp   |-> Nat64(clock),
                  tid         |-> Nat64(Gettid(t)),
                  type        |-> f.type,
                  ptr1        |-> Nat64(f.ptr1),
                  ptr2        |-> Nat64(f.ptr2),
                  result      |-> f.result,
                  duration_ns |-> Nat64(f.duration_ns),
                  stack       |-> Backtrace(t, stack[t])]
       IN  /\ writer_' = SerializeHead(ev)
           /\ stack' = [stack EXCEPT ![t] = SetTop(@, [f EXCEPT !.pc = "body", !.ev = ev])]
    /\ clock' = clock + 1
    /\ UNCHANGED <<shimFrame, mutex_owner, in_hook, started, ncalls, program, last_ret>>
    /\ UNCHANGED <<traceVars, readerVars, codecVars>>

\* the remaining fields, skeletonkey.cpp:175-179
LogBody(t) ==
    /\ InLog(t, "body")
    /\ writer_' = writer_ \o SerializeBody(Top(t).ev)
    /\ stack' = [stack EXCEPT ![t] = SetTop(@, [Top(t) EXCEPT !.pc = "write"])]
    /\ UNCHANGED <<shimFrame, mutex_owner, clock, in_hook, started, ncalls, program,
                   last_ret>>
    /\ UNCHANGED <<traceVars, readerVars, codecVars>>

\* A faulty log, to compare against: the record stays in the stream's
\* buffer, nothing is flushed to the file.
LogWriteDeferred(t) ==
    /\ InLog(t, "write")
    /\ stack' = [stack EXCEPT ![t] = SetTop(@, [Top(t) EXCEPT !.pc = "unlock"])]
    /\ UNCHANGED <<shimFrame, mutex_owner, writer_, clock, in_hook, started, ncalls,
                   program, last_ret>>
    /\ UNCHANGED <<traceVars, readerVars, codecVars>>

\* A faulty log, to compare against: the bytes reach the file whether or
\* not the stream was opened.
LogWriteUnopened(t) ==
    /\ InLog(t, "write")
    /\ file' = file \o writer_
    /\ appended' = Append(appended, Top(t).ev)
    /\ stack' = [stack EXCEPT ![t] = SetTop(@, [Top(t) EXCEPT !.pc = "unlock"])]
    /\ UNCHANGED <<shimFrame, mutex_owner, writer_, clock, in_hook, started, ncalls,
                   program, last_ret>>
    /\ UNCHANGED <<readerVars, codecVars>>

\* log_.write(writer_.data(), writer_.size()); log_.flush(), skeletonkey.cpp:181-182.
\* A stream that is not open writes nothing.
LogWrite(t) ==
    /\ InLog(t, "write")
    /\ file' = IF log_open THEN file \o writer_ ELSE file
    /\ appended' = IF log_open THEN Append(appended, Top(t).ev) ELSE appended
    /\ stack' = [stack EXCEPT ![t] = SetTop(@, [Top(t) EXCEPT !.pc = "unlock"])]
    /\ UNCHANGED <<shimFrame, mutex_owner, writer_, clock, in_hook, started, ncalls,
                   program, last_ret>>
    /\ UNCHANGED <<readerVars, codecVars>>


\* A faulty log, to compare against: it returns without releasing
\* write_mutex_.
LogNoUnlock(t) ==
    /\ InLog(t, "unlock")
    /\ stack' = [stack EXCEPT ![t] = AllButLast(@)]
    /\ UNCHANGED <<shimFrame, mutex_owner, writer_, clock, in_hook, started, ncalls,
                   program, last_ret>>
    /\ UNCHANGED <<traceVars, readerVars, codecVars>>

\* the lock_guard's destructor at the end of log, skeletonkey.cpp:183
LogUnlockCall(t) ==
    /\ InLog(t, "unlock")
    /\ Len(stack[t]) < MaxDepth
    /\ Enter(t, SetTop(stack[t], [Top(t) EXCEPT !.pc = "ret"]),
             pthread_mutex_unlock, <<Addr.write_mutex_>>, "~lock_guard")
    /\ UNCHANGED <<shimFrame, mutex_owner, writer_, started, ncalls, last_ret>>
    /\ UNCHANGED <<traceVars, readerVars, codecVars>>

\* The records in the file from byte from on, as the decoder reads them.
RECURSIVE DecodeFrom(_, _)
DecodeFrom(bytes, from) ==
    IF eof(bytes, from) THEN <<>>
    ELSE LET rec == ReadRecord(bytes, from, 0)
         IN  <<rec.event>> \o DecodeFrom(bytes, rec.pos)

EventsOf(evs, t) == SelectSeq(evs, LAMBDA e : e.tid = Nat64(Gettid(t)))

\* History: what a returned invocation leaves behind for the properties
\* below: what it was called with, what it called and returned, and the
\* records of its thread that reached the file while it ran.
Returned(t, f, ret) ==
    [name |-> f.w.name, args |-> f.args, src |-> f.src, nested |-> f.nested,
     nreal |-> f.nreal, realsym |-> f.realsym, realargs |-> f.realargs,
     realret |-> f.realret, ret |-> ret, ncall |-> Len(program[t]),
     evs |-> EventsOf(DecodeFrom(file, f.f0), t)]

\* A faulty guarded path, to compare against: it clears in_hook when it
\* returns.
GuardedRealClears(t) ==
    /\ InWrapper(t, "guarded")
    /\ Top(t).w.sym \in real_
    /\ LET f == Top(t)
       IN  /\ RealEnabled(t, f.w.sym, f.args)
           /\ \E res \in RealResults(t, f.w.sym, f.args) :
                /\ mutex_owner' = RealOwner(t, f.w.sym, f.args, res)
                /\ started' = RealStarted(f.w.sym, res)
                /\ last_ret' = [last_ret EXCEPT ![t] =
                       Returned(t, [f EXCEPT !.nreal = @ + 1, !.realsym = f.w.sym,
                                             !.realargs = f.args, !.realret = res],
                                res)]
    /\ stack' = [stack EXCEPT ![t] = Pop(@)]
    /\ in_hook' = [in_hook EXCEPT ![t] = FALSE]
    /\ UNCHANGED <<shimFrame, writer_, clock, ncalls, program>>
    /\ UNCHANGED <<traceVars, readerVars, codecVars>>

\* The guarded path of every wrapper: if (in_hook) return real_...(args);
GuardedReal(t) ==
    /\ InWrapper(t, "guarded")
    /\ Top(t).w.sym \in real_
    /\ LET f == Top(t)
       IN  /\ RealEnabled(t, f.w.sym, f.args)
           /\ \E res \in RealResults(t, f.w.sym, f.args) :
                /\ mutex_owner' = RealOwner(t, f.w.sym, f.args, res)
                /\ started' = RealStarted(f.w.sym, res)
                /\ last_ret' = [last_ret EXCEPT ![t] =
                       Returned(t, [f EXCEPT !.nreal = @ + 1, !.realsym = f.w.sym,
                                             !.realargs = f.args, !.realret = res],
                                res)]
    /\ stack' = [stack EXCEPT ![t] = Pop(@)]
    /\ UNCHANGED <<shimFrame, writer_, clock, in_hook, ncalls, program>>
    /\ UNCHANGED <<traceVars, readerVars, codecVars>>

\* A faulty wrapper, to compare against: the event before the real call
\* carries the stopwatch's reading as its duration.
LogPreTimed(t) ==
    /\ InWrapper(t, "pre")
    /\ LET f == Top(t)
       IN  stack' = [stack EXCEPT ![t] =
               CallLog(SetTop(@, [f EXCEPT !.pc = "real"]),
                       f.w.pre, f.args[1], Ptr2Of(f.w, f.args), 0, clock - f.start)]
    /\ UNCHANGED <<shimFrame, mutex_owner, writer_, clock, in_hook, started, ncalls,
                   program, last_ret>>
    /\ UNCHANGED <<traceVars, readerVars, codecVars>>

\* A faulty wrapper, to compare against: the event before the real call
\* carries the Done kind.
LogPreDone(t) ==
    /\ InWrapper(t, "pre")
    /\ LET f == Top(t)
       IN  stack' = [stack EXCEPT ![t] =
               CallLog(SetTop(@, [f EXCEPT !.pc = "real"]),
                       f.w.post, f.args[1], Ptr2Of(f.w, f.args), 0, 0)]
    /\ UNCHANGED <<shimFrame, mutex_owner, writer_, clock, in_hook, started, ncalls,
                   program, last_ret>>
    /\ UNCHANGED <<traceVars, readerVars, codecVars>>

\* The pre-event of a blocking wrapper, e.g. skeletonkey.cpp:321:
\*   log(<pre kind>, <first argument>, <second argument or nullptr>, 0)
LogPre(t) ==
    /\ InWrapper(t, "pre")
    /\ LET f == Top(t)
       IN  stack' = [stack EXCEPT ![t] =
               CallLog(SetTop(@, [f EXCEPT !.pc = "real"]),
                       f.w.pre, f.args[1], Ptr2Of(f.w, f.args), 0, 0)]
    /\ UNCHANGED <<shimFrame, mutex_owner, writer_, clock, in_hook, started, ncalls,
                   program, last_ret>>
    /\ UNCHANGED <<traceVars, readerVars, codecVars>>

\* int result = real_...(args), e.g. skeletonkey.cpp:323
Real(t) ==
    /\ InWrapper(t, "real")
    /\ Top(t).w.sym \in real_
    /\ LET f == Top(t)
       IN  /\ RealEnabled(t, f.w.sym, f.args)
           /\ \E res \in RealResults(t, f.w.sym, f.args) :
                /\ mutex_owner' = RealOwner(t, f.w.sym, f.args, res)
                /\ started' = RealStarted(f.w.sym, res)
                /\ stack' = [stack EXCEPT ![t] =
                       SetTop(@, [f EXCEPT !.pc = "post", !.result = res,
                                           !.nreal = @ + 1, !.realsym = f.w.sym,
                                           !.realargs = f.args, !.realret = res])]
    /\ UNCHANGED <<shimFrame, writer_, clock, in_hook, ncalls, program, last_ret>>
    /\ UNCHANGED <<traceVars, readerVars, codecVars>>

\* A faulty wrapper, to compare against: every wrapper passes a duration,
\* the time since the library was loaded where no stopwatch was started.
LogPostTimed(t) ==
    /\ InWrapper(t, "post")
    /\ LET f == Top(t)
       IN  stack' = [stack EXCEPT ![t] =
               CallLog(SetTop(@, [f EXCEPT !.pc = "exit"]),
                       f.w.post, f.args[1], Ptr2Of(f.w, f.args), f.result, clock - f.start)]
    /\ clock' = clock + 1
    /\ UNCHANGED <<shimFrame, mutex_owner, writer_, in_hook, started, ncalls, program,
                   last_ret>>
    /\ UNCHANGED <<traceVars, readerVars, codecVars>>

\* A faulty wrapper, to compare against: the event after the real call
\* carries result 0.
LogPostNoResult(t) ==
    /\ InWrapper(t, "post")
    /\ LET f        == Top(t)
           duration == IF IsBlocking(f.w) THEN clock - f.start ELSE 0
       IN  stack' = [stack EXCEPT ![t] =
               CallLog(SetTop(@, [f EXCEPT !.pc = "exit"]),
                       f.w.post, f.args[1], Ptr2Of(f.w, f.args), 0, duration)]
    /\ clock' = IF IsBlocking(Top(t).w) THEN clock + 1 ELSE clock
    /\ UNCHANGED <<shimFrame, mutex_owner, writer_, in_hook, started, ncalls, program,
                   last_ret>>
    /\ UNCHANGED <<traceVars, readerVars, codecVars>>

\* The event after the real call.  A blocking wrapper reads the clock again
\* and passes now - start as the duration (skeletonkey.cpp:325-329); the
\* others pass none, and duration_ns defaults to 0 (skeletonkey.cpp:296-297).
LogPost(t) ==
    /\ InWrapper(t, "post")
    /\ LET f        == Top(t)
           duration == IF IsBlocking(f.w) THEN clock - f.start ELSE 0
       IN  stack' = [stack EXCEPT ![t] =
               CallLog(SetTop(@, [f EXCEPT !.pc = "exit"]),
                       f.w.post, f.args[1], Ptr2Of(f.w, f.args), f.result, duration)]
    /\ clock' = IF IsBlocking(Top(t).w) THEN clock + 1 ELSE clock
    /\ UNCHANGED <<shimFrame, mutex_owner, writer_, in_hook, started, ncalls, program,
                   last_ret>>
    /\ UNCHANGED <<traceVars, readerVars, codecVars>>

\* A faulty wrapper, to compare against: it returns 0 whatever the real
\* function returned.
ReturnZero(t) ==
    /\ InWrapper(t, "exit")
    /\ in_hook' = [in_hook EXCEPT ![t] = FALSE]
    /\ last_ret' = [last_ret EXCEPT ![t] = Returned(t, Top(t), 0)]
    /\ stack' = [stack EXCEPT ![t] = Pop(@)]
    /\ UNCHANGED <<shimFrame, mutex_owner, writer_, clock, started, ncalls, program>>
    /\ UNCHANGED <<traceVars, readerVars, codecVars>>

\* in_hook = false; return result;
Return(t) ==
    /\ InWrapper(t, "exit")
    /\ in_hook' = [in_hook EXCEPT ![t] = FALSE]
    /\ last_ret' = [last_ret EXCEPT ![t] = Returned(t, Top(t), Top(t).result)]
    /\ stack' = [stack EXCEPT ![t] = Pop(@)]
    /\ UNCHANGED <<shimFrame, mutex_owner, writer_, clock, started, ncalls, program>>
    /\ UNCHANGED <<traceVars, readerVars, codecVars>>

(***************************************************************************)
(* The state once the library constructor has run (skeletonkey.cpp:        *)
(* 226-284): every real_ pointer resolved, the logger initialized and its  *)
(* file open and empty, only the main thread running, outside any hook.    *)
(***************************************************************************)
ReaderIdle ==
    /\ buffer_ = <<>>
    /\ pos_ = 0
    /\ first_timestamp = U64Zero
    /\ out = <<>>
    /\ elapsed = <<>>
    /\ rstate = "closed"
    /\ r_oob = FALSE

CodecIdle ==
    /\ value = U64Zero
    /\ decoded = [value |-> U64Zero, pos |-> 0, ub |-> FALSE]

ShimLoaded ==
    /\ real_ = Symbols
    /\ initialized_ = TRUE
    /\ log_open = TRUE
    /\ init_pc = "done"
    /\ mutex_owner = [m \in Mutexes |-> NoThread]
    /\ writer_ = <<>>
    /\ clock = 1
    /\ in_hook = [t \in Threads |-> FALSE]
    /\ stack = [t \in Threads |-> <<>>]
    /\ started = {MainThread}
    /\ ncalls = 0
    /\ program = [t \in Threads |-> <<>>]
    /\ last_ret = [t \in Threads |-> NoRet]
    /\ file = <<>>
    /\ appended = <<>>

Init ==
    /\ ShimLoaded
    /\ scenario \in Scenarios
    /\ ReaderIdle
    /\ CodecIdle

Next ==
    \/ \E t \in Threads, w \in Wrappers : TargetCall(t, w)
    \/ \E t \in Threads, w \in Wrappers : SignalCall(t, w)
    \/ \E t \in Threads : LogPre(t)
    \/ \E t \in Threads : Real(t)
    \/ \E t \in Threads : LogPost(t)
    \/ \E t \in Threads : Return(t)
    \/ \E t \in Threads : GuardedReal(t)
    \/ \E t \in Threads : LogLockCall(t)
    \/ \E t \in Threads : LogFill(t)
    \/ \E t \in Threads : LogBody(t)
    \/ \E t \in Threads : LogWrite(t)
    \/ \E t \in Threads : LogUnlockCall(t)

Spec == Init /\ [][Next]_vars

(***************************************************************************)
(* Loading.  The real_ pointers are null and initialized_ is false until   *)
(* the constructor init_skeleton_key (skeletonkey.cpp:226-284) has run: it *)
(* looks every symbol up, keeping nullptr where dlsym or dlvsym finds      *)
(* none, and then calls EventLogger::init, which sets initialized_ and     *)
(* opens the file, or fails to.  The wrappers are callable all the while:  *)
(* before the constructor starts and from what it calls.                   *)
(***************************************************************************)
\* Lookups that fail in one load.
MaxUnresolved == 1

\* The state of the library before its constructor has run: the static
\* initializers of skeletonkey.cpp:131 and 197-223.
Unloaded ==
    /\ real_ = {}
    /\ initialized_ = FALSE
    /\ log_open = FALSE
    /\ init_pc = "idle"
    /\ mutex_owner = [m \in Mutexes |-> NoThread]
    /\ writer_ = <<>>
    /\ clock = 1
    /\ in_hook = [t \in Threads |-> FALSE]
    /\ stack = [t \in Threads |-> <<>>]
    /\ started = {MainThread}
    /\ ncalls = 0
    /\ program = [t \in Threads |-> <<>>]
    /\ last_ret = [t \in Threads |-> NoRet]
    /\ file = <<>>
    /\ appended = <<>>

\* The process has died of a call through a null real_ pointer.
Crashed(t) == stack[t] # <<>> /\ Top(t).pc = "segv"

\* real_...(args) with a null pointer, on the guarded path (e.g.
\* skeletonkey.cpp:359) and on the logging path (e.g. skeletonkey.cpp:366):
\* the call jumps to address 0 and the process is killed, all its threads
\* with it.
RealNull(t) ==
    /\ InWrapper(t, "real") \/ InWrapper(t, "guarded")
    /\ Top(t).w.sym \notin real_
    /\ stack' = [stack EXCEPT ![t] = SetTop(@, [Top(t) EXCEPT !.pc = "segv"])]
    /\ started' = {}
    /\ UNCHANGED <<shimFrame, mutex_owner, writer_, clock, in_hook, ncalls, program,
                   last_ret>>
    /\ UNCHANGED <<traceVars, readerVars, codecVars>>

\* The lookups of init_skeleton_key, skeletonkey.cpp:229-276.  failed are
\* the symbols dlsym / dlvsym does not find.
ResolveSymbols(failed) ==
    /\ real_ = {}
    /\ ~initialized_
    /\ MainThread \in started
    /\ stack[MainThread] = <<>>
    /\ failed \subseteq Symbols
    /\ Cardinality(failed) <= MaxUnresolved
    /\ real_' = Symbols \ failed
    /\ UNCHANGED <<initialized_, log_open, init_pc, scenario, mutex_owner, writer_, clock, in_hook,
                   stack, started, ncalls, program, last_ret>>
    /\ UNCHANGED <<traceVars, readerVars, codecVars>>

\* EventLogger::init as the constructor calls it, skeletonkey.cpp:278-283,
\* first half: initialized_.exchange(true), skeletonkey.cpp:147.  The open
\* follows only when the flag was false.
InitExchange ==
    /\ real_ # {}
    /\ init_pc = "idle"
    /\ MainThread \in started
    /\ stack[MainThread] = <<>>
    /\ initialized_' = TRUE
    /\ init_pc' = IF initialized_ THEN "done" ELSE "open"
    /\ UNCHANGED <<real_, log_open, scenario, mutex_owner, writer_, clock, in_hook, stack,
                   started, ncalls, program, last_ret>>
    /\ UNCHANGED <<traceVars, readerVars, codecVars>>

\* Second half: log_.open(filename, binary | out | trunc), skeletonkey.cpp:148.
\* It truncates the file (ok) or fails and leaves the stream closed.
InitLogger(ok) ==
    /\ init_pc = "open"
    /\ MainThread \in started
    /\ stack[MainThread] = <<>>
    /\ log_open' = ok
    /\ init_pc' = "done"
    /\ file' = IF ok THEN <<>> ELSE file
    /\ UNCHANGED <<real_, initialized_, scenario, mutex_owner, writer_, clock, in_hook,
                   stack, started, ncalls, program, last_ret, appended>>
    /\ UNCHANGED <<readerVars, codecVars>>

InitLoad ==
    /\ Unloaded
    /\ scenario \in Scenarios
    /\ ReaderIdle
    /\ CodecIdle

NextLoad ==
    \/ Next
    \/ \E failed \in SUBSET {w.sym : w \in scenario} : ResolveSymbols(failed)
    \/ InitExchange
    \/ \E ok \in BOOLEAN : InitLogger(ok)
    \/ \E t \in Threads : RealNull(t)

SpecLoad == InitLoad /\ [][NextLoad]_vars


(***************************************************************************)
(* The decoder (reader.cpp main, 185-247) on a trace.  A trace is what the *)
(* logger writes: serialized records, one after the other.  The decoder is *)
(* given the first n bytes of it: all of it, or what a killed target or a  *)
(* cut copy left.                                                          *)
(***************************************************************************)
\* Records a trace is made of in the decoder's runs.
MaxRecords == 2

Pointer48 == <<Limb - 16, 2 ^ 19 - 1, 0>>

Stack16 == [i \in 1 .. MAX_STACK_DEPTH |-> IF i = 1 THEN Pointer48 ELSE Nat64(i)]

\* The smallest int32_t but one.
MinResult == 0 - (Limb * 4 - 1) * 2 - 1

\* Four records: a MutexLock and a CondTimedWaitDone, each once with small
\* fields (an early timestamp, no stack, a non-negative result) and once
\* with extreme ones.
SampleEvents ==
    { [timestamp   |-> IF ~big THEN (IF ty = EventType.MutexLock THEN U64Zero
                                     ELSE Nat64(3000000))
                       ELSE U64Max,
       tid         |-> IF ty = EventType.MutexLock THEN Nat64(70000) ELSE <<Limb - 1, 15, 0>>,
       type        |-> ty,
       ptr1        |-> Pointer48,
       ptr2        |-> IF ty = EventType.MutexLock THEN U64Zero ELSE Pointer48,
       result      |-> IF ty = EventType.MutexLock THEN (IF big THEN 0 - 1 ELSE 0)
                       ELSE (IF big THEN MinResult ELSE Errno.ETIMEDOUT),
       duration_ns |-> IF ty = EventType.MutexLock THEN U64Zero ELSE U64Max,
       stack       |-> IF ~big THEN <<>> ELSE Stack16] :
        ty \in {EventType.MutexLock, EventType.CondTimedWaitDone},
        big \in BOOLEAN }

\* Bytes that may lie behind the end of buffer_.
OobBytes == {0, 255}

\* EventLogger::log appends one whole record (skeletonkey.cpp:170-182).
TraceAppend(ev) ==
    /\ rstate = "closed"
    /\ Len(appended) < MaxRecords
    /\ file' = file \o Serialize(ev)
    /\ appended' = Append(appended, ev)
    /\ UNCHANGED <<shimVars, readerVars, codecVars>>

\* reader.cpp:199-208: the whole file is read into buffer_; n is the size
\* of the file.
ReaderLoad(n) ==
    /\ rstate = "closed"
    /\ file # <<>>
    /\ n \in 0 .. Len(file)
    /\ buffer_' = SubSeq(file, 1, n)
    /\ pos_' = 0
    /\ first_timestamp' = U64Zero
    /\ rstate' = "loop"
    /\ UNCHANGED <<out, elapsed, r_oob, shimVars, traceVars, codecVars>>

\* A faulty decoder, to compare against: a record that runs past the end
\* of the buffer is not printed and the decoder goes back to its start.
ReaderStepRetry(oob) ==
    /\ rstate = "loop"
    /\ ~eof(buffer_, pos_)
    /\ \E rec \in {ReadRecord(buffer_, pos_, oob)} :
           /\ oob \in (IF rec.ub THEN OobBytes ELSE {0})
           /\ ~rec.bad_alloc
           /\ first_timestamp' = IF first_timestamp = U64Zero THEN rec.event.timestamp
                                 ELSE first_timestamp
           /\ out' = IF rec.ub THEN out ELSE Append(out, rec.event)
           /\ elapsed' = IF rec.ub THEN elapsed
                         ELSE Append(elapsed, Sub64(rec.event.timestamp, first_timestamp'))
           /\ pos_' = IF rec.ub THEN pos_ ELSE rec.pos
           /\ r_oob' = (r_oob \/ rec.ub)
    /\ UNCHANGED <<buffer_, rstate, shimVars, traceVars, codecVars>>

\* One turn of while (!reader.eof()), reader.cpp:211-244.
ReaderStep(oob) ==
    /\ rstate = "loop"
    /\ ~eof(buffer_, pos_)
    /\ \E rec \in {ReadRecord(buffer_, pos_, oob)} :
           /\ oob \in (IF rec.ub THEN OobBytes ELSE {0})
           /\ ~rec.bad_alloc
           /\ first_timestamp' = IF first_timestamp = U64Zero THEN rec.event.timestamp
                                 ELSE first_timestamp
           /\ out' = Append(out, rec.event)
           /\ elapsed' = Append(elapsed, Sub64(rec.event.timestamp, first_timestamp'))
           /\ pos_' = rec.pos
           /\ r_oob' = (r_oob \/ rec.ub)
    /\ UNCHANGED <<buffer_, rstate, shimVars, traceVars, codecVars>>

\* The same turn when the index past the end of buffer_ faults.
ReaderCrash ==
    /\ rstate = "loop"
    /\ ~eof(buffer_, pos_)
    /\ ReadRecord(buffer_, pos_, 0).ub
    /\ rstate' = "crashed"
    /\ r_oob' = TRUE
    /\ UNCHANGED <<buffer_, pos_, first_timestamp, out, elapsed, shimVars, traceVars,
                   codecVars>>

\* The loop ends at eof and main returns 0, reader.cpp:246.
ReaderExit ==
    /\ rstate = "loop"
    /\ eof(buffer_, pos_)
    /\ rstate' = "exit0"
    /\ UNCHANGED <<buffer_, pos_, first_timestamp, out, elapsed, r_oob, shimVars,
                   traceVars, codecVars>>

InitReader ==
    /\ ShimLoaded
    /\ scenario = {}
    /\ ReaderIdle
    /\ CodecIdle

NextReader ==
    \/ \E ev \in SampleEvents : TraceAppend(ev)
    \/ \E n \in 0 .. Len(file) : ReaderLoad(n)
    \/ \E oob \in OobBytes : ReaderStep(oob)
    \/ ReaderCrash
    \/ ReaderExit

SpecReader == InitReader /\ [][NextReader]_vars

(***************************************************************************)
(* The varint codec alone: VarIntWriter::write(uint64_t) followed by       *)
(* VarIntReader::readVarInt on the bytes written, with or without further  *)
(* bytes behind them.                                                      *)
(***************************************************************************)
LimbSamples == {0, 1, 127, 128, 2 ^ 14 - 1, 2 ^ 14, 2 ^ 21 - 1, 2 ^ 21, Limb - 1}

VarIntSamples ==
    {<<lo, mid, hi>> : lo \in LimbSamples, mid \in LimbSamples,
                       hi \in {0, 1, 127, 128, HiLimb - 1}}

\* VarIntWriter::write(uint64_t), skeletonkey.cpp:94-97
VarIntWrite ==
    /\ rstate = "closed"
    /\ writer_ = <<>>
    /\ writer_' = writer_ \o encodeVarInt(value)
    /\ UNCHANGED <<real_, initialized_, log_open, init_pc, mutex_owner, clock, in_hook, stack,
                   started, scenario, ncalls, program, last_ret>>
    /\ UNCHANGED <<traceVars, readerVars, codecVars>>

\* VarIntReader's constructor (reader.cpp:61-64) on the bytes written and
\* what follows them in the file.
VarIntLoad(rest) ==
    /\ rstate = "closed"
    /\ writer_ # <<>>
    /\ buffer_' = writer_ \o rest
    /\ pos_' = 0
    /\ rstate' = "loaded"
    /\ UNCHANGED <<first_timestamp, out, elapsed, r_oob, shimVars, traceVars, codecVars>>

\* VarIntReader::readVarInt, reader.cpp:66-79
VarIntRead ==
    /\ rstate = "loaded"
    /\ decoded' = readVarInt(buffer_, pos_)
    /\ pos_' = decoded'.pos
    /\ rstate' = "read"
    /\ UNCHANGED <<value, buffer_, first_timestamp, out, elapsed, r_oob, shimVars,
                   traceVars>>

InitVarInt ==
    /\ ShimLoaded
    /\ scenario = {}
    /\ ReaderIdle
    /\ value \in VarIntSamples
    /\ decoded = [value |-> U64Zero, pos |-> 0, ub |-> FALSE]

NextVarInt ==
    \/ VarIntWrite
    \/ \E rest \in {<<>>, <<129, 1>>} : VarIntLoad(rest)
    \/ VarIntRead

SpecVarInt == InitVarInt /\ [][NextVarInt]_vars


(***************************************************************************)
(* Properties of the codec and the decoder                                 *)
(***************************************************************************)
RECURSIVE SerializeAll(_)
SerializeAll(evs) ==
    IF evs = <<>> THEN <<>> ELSE Serialize(Head(evs)) \o SerializeAll(Tail(evs))

\* The records of the trace that lie completely within its first n bytes.
RECURSIVE CompleteRecords(_, _)
CompleteRecords(evs, n) ==
    IF evs = <<>> \/ Len(Serialize(Head(evs))) > n THEN <<>>
    ELSE <<Head(evs)>> \o CompleteRecords(Tail(evs), n - Len(Serialize(Head(evs))))

\* C6 (as claimed): run on the first n bytes of a valid trace, the decoder
\* never indexes buffer_ past its end, does not crash, and when it exits it
\* has emitted exactly the records that lie completely within those n
\* bytes, nothing for a truncated last record.
C6_PrefixParsable ==
    /\ ~r_oob
    /\ rstate # "crashed"
    /\ rstate = "exit0" => out = CompleteRecords(appended, Len(buffer_))

\* C7: readVarInt on the bytes encodeVarInt wrote for a uint64_t returns
\* that value and stops right behind those bytes; the encoding has at most
\* ten bytes, zero is the single byte 0, and exactly the last byte has its
\* high bit clear.
C7_VarIntRoundTrip ==
    /\ rstate = "read" =>
          /\ decoded.value = value
          /\ pos_ = Len(writer_)
          /\ ~decoded.ub
    /\ writer_ # <<>> =>
          /\ Len(writer_) <= 10
          /\ (value = U64Zero => writer_ = <<0>>)
          /\ \A i \in 1 .. Len(writer_) : (writer_[i] < 128) <=> (i = Len(writer_))
          /\ \A i \in 1 .. Len(writer_) : writer_[i] \in 0 .. 255

C7_Witness ==
    /\ rstate = "read"
    /\ value = U64Max
    /\ Len(writer_) = 10
    /\ Len(buffer_) > Len(writer_)

\* C8: the decoder's reads of one record, applied to the bytes the logger
\* serialized for it, give back the same eight fields, and leave pos_ at
\* the first byte of the next record.
C8_RecordRoundTrip ==
    (rstate \in {"loop", "exit0"} /\ buffer_ = file) =>
        /\ Len(out) <= Len(appended)
        /\ out = SubSeq(appended, 1, Len(out))
        /\ pos_ = Len(SerializeAll(out))
        /\ ~r_oob

C8_Witness ==
    /\ rstate = "loop"
    /\ buffer_ = file
    /\ Len(appended) = 2
    /\ Len(out) = 1
    /\ out[1].result < 0
    /\ Len(out[1].stack) = MAX_STACK_DEPTH
    /\ out[1].timestamp = U64Max
    /\ pos_ < Len(buffer_)


(***************************************************************************)
(* Properties of the shim                                                  *)
(***************************************************************************)
\* The trace: the records of the output file, as the decoder reads them.
Trace == DecodeFrom(file, 0)

Leq64(a, b) ==
    \/ a[3] < b[3]
    \/ a[3] = b[3] /\ a[2] < b[2]
    \/ a[3] = b[3] /\ a[2] = b[2] /\ a[1] <= b[1]

\* The functions whose wrappers log a pre-event and a Done event.
BlockingNames ==
    {"pthread_mutex_lock", "pthread_mutex_trylock", "pthread_mutex_timedlock",
     "pthread_rwlock_rdlock", "pthread_rwlock_tryrdlock", "pthread_rwlock_timedrdlock",
     "pthread_rwlock_wrlock", "pthread_rwlock_trywrlock", "pthread_rwlock_timedwrlock",
     "pthread_cond_wait", "pthread_cond_timedwait"}

CondWaitNames == {"pthread_cond_wait", "pthread_cond_timedwait"}

HasReturned(t) == last_ret[t] # NoRet

\* Thread t has just come back from a top-level call and made no other since.
JustReturned(t) ==
    /\ HasReturned(t)
    /\ ~last_ret[t].nested
    /\ last_ret[t].ncall = Len(program[t])

Frames(t) == {stack[t][i] : i \in 1 .. Len(stack[t])}

\* C1: a top-level call of a blocking wrapper whose real call returned has
\* put exactly two records of its thread into the trace: a pre-event and
\* then the Done event of that kind, both with the caller's first argument
\* as ptr1 and equal ptr2 (the mutex argument in a condition wait), with no
\* other record of that thread between them.
C1_PairedEvents ==
    \A t \in Threads :
        (JustReturned(t) /\ last_ret[t].name \in BlockingNames) =>
            LET evs == last_ret[t].evs
            IN  /\ Len(evs) = 2
                /\ evs[1].type \in PreEventTypes
                /\ evs[2].type = DoneOf(evs[1].type)
                /\ evs[1].ptr1 = Nat64(last_ret[t].args[1])
                /\ evs[2].ptr1 = evs[1].ptr1
                /\ evs[2].ptr2 = evs[1].ptr2
                /\ last_ret[t].name \in CondWaitNames =>
                       evs[1].ptr2 = Nat64(last_ret[t].args[2])

\* A blocking call has returned whose two records have a record of the
\* other thread between them in the file.
C1_Witness ==
    \E t \in Threads :
        /\ JustReturned(t)
        /\ last_ret[t].name \in CondWaitNames
        /\ Len(last_ret[t].evs) = 2
        /\ \E i \in 1 .. Len(Trace) - 2 :
              /\ Trace[i] = last_ret[t].evs[1]
              /\ Trace[i + 1].tid # Trace[i].tid
              /\ Trace[i + 2] = last_ret[t].evs[2]

\* The threads that hold the lock_guard of log: past the lock, before the
\* unlock.
InCritical(t) ==
    \E i \in 1 .. Len(stack[t]) :
        /\ stack[t][i].fn = "log"
        /\ \/ stack[t][i].pc \in {"body", "write", "unlock"}
           \/ /\ stack[t][i].pc = "fill"
              /\ ~(i < Len(stack[t]) /\ stack[t][i + 1].src = "lock_guard")

\* C2: whatever the interleaving, the file is the concatenation of the
\* whole records handed to log_.write, in that order; one thread at a time
\* clears, fills and writes the scratch buffer, which holds that thread's
\* record when it is written; every record decodes to a valid kind.
C2_AtomicAppend ==
    /\ Cardinality({t \in Threads : InCritical(t)}) <= 1
    /\ \A t \in Threads : InLog(t, "write") => writer_ = Serialize(Top(t).ev)
    /\ file = SerializeAll(appended)
    /\ \A i \in 1 .. Len(Trace) : Trace[i].type \in ValidEventTypes

\* One thread is about to write its record while the other, inside log as
\* well, waits for write_mutex_, and a record is already in the file.
C2_Witness ==
    \E t, u \in Threads :
        /\ t # u
        /\ InLog(t, "write")
        /\ InWrapper(u, "guarded")
        /\ Top(u).src = "lock_guard"
        /\ file # <<>>

\* C3: every wrapper invocation, guarded or logging, calls the real
\* function of its own name exactly once, with the arguments it was given,
\* and returns the value that call returned.
C3_Fidelity ==
    \A t \in Threads :
        /\ HasReturned(t) =>
              /\ last_ret[t].nreal = 1
              /\ last_ret[t].realsym = last_ret[t].name
              /\ last_ret[t].realargs = last_ret[t].args
              /\ last_ret[t].ret = last_ret[t].realret
        /\ \A f \in Frames(t) :
              f.fn = "wrapper" =>
                  /\ f.nreal = (IF f.pc \in {"post", "exit"} THEN 1 ELSE 0)
                  /\ f.nreal = 1 => f.realargs = f.args /\ f.realsym = f.w.name

\* A logging invocation is about to return an error its real call returned,
\* after a guarded invocation in the same thread returned one too.
C3_Witness ==
    \E t \in Threads :
        /\ HasReturned(t)
        /\ last_ret[t].nested
        /\ last_ret[t].src = "signal"
        /\ last_ret[t].ret # 0
        /\ InWrapper(t, "exit")
        /\ Top(t).result # 0
        /\ Len(Top(t).args) > 1

\* C4: a wrapper entered with in_hook already set calls the real function
\* and returns: it never calls log, and no record of its thread reaches the
\* file between its entry and its return.
C4_GuardedSilent ==
    \A t \in Threads :
        /\ (HasReturned(t) /\ last_ret[t].nested) =>
              /\ last_ret[t].evs = <<>>
              /\ last_ret[t].nreal = 1
        /\ \A i \in 1 .. Len(stack[t]) :
              (stack[t][i].fn = "wrapper" /\ stack[t][i].nested) =>
                  /\ stack[t][i].pc = "guarded"
                  /\ i < Len(stack[t]) => stack[t][i + 1].fn = "wrapper"

\* A call from a signal handler that interrupted a blocking wrapper after
\* its pre-event was written has returned; the wrapper has not.
C4_Witness ==
    \E t \in Threads :
        /\ HasReturned(t)
        /\ last_ret[t].nested
        /\ last_ret[t].src = "signal"
        /\ in_hook[t]
        /\ InWrapper(t, "real")
        /\ Top(t).w.name \in BlockingNames
        /\ \E i \in 1 .. Len(Trace) : Trace[i].tid = Nat64(Gettid(t))

\* C5: log runs only with in_hook set in its thread, a thread is never in
\* log twice, and a thread that calls pthread_mutex_lock on write_mutex_
\* does not hold it.
C5_NoReentry ==
    \A t \in Threads :
        /\ (\E f \in Frames(t) : f.fn = "log") => in_hook[t]
        /\ Cardinality({i \in 1 .. Len(stack[t]) : stack[t][i].fn = "log"}) <= 1
        /\ \A f \in Frames(t) :
              (/\ f.fn = "wrapper"
               /\ f.w.name = "pthread_mutex_lock"
               /\ f.args[1] = Addr.write_mutex_
               /\ f.nreal = 0) => mutex_owner[Addr.write_mutex_] # t

\* A thread holding write_mutex_ inside log is interrupted by a signal
\* handler that calls a wrapped function.
C5_Witness ==
    \E t \in Threads :
        /\ mutex_owner[Addr.write_mutex_] = t
        /\ InCritical(t)
        /\ InWrapper(t, "guarded")
        /\ Top(t).src = "signal"

\* C9: the records of one tid carry non-decreasing timestamps in file order.
C9_PerThreadMonotonic ==
    \A i, j \in 1 .. Len(Trace) :
        (i < j /\ Trace[i].tid = Trace[j].tid) =>
            Leq64(Trace[i].timestamp, Trace[j].timestamp)

\* Both threads have records in the file, two of one thread around one of
\* the other.
C9_Witness ==
    \E i \in 1 .. Len(Trace) - 2 :
        /\ Trace[i].tid = Trace[i + 2].tid
        /\ Trace[i].tid # Trace[i + 1].tid
        /\ Trace[i].timestamp # Trace[i + 2].timestamp

\* The kinds a thread's top-level calls log, in program order.
RECURSIVE ProgramKinds(_)
ProgramKinds(calls) ==
    IF calls = <<>> THEN <<>>
    ELSE (IF Head(calls).w.name \in BlockingNames
          THEN <<Head(calls).w.pre, DoneOf(Head(calls).w.pre)>>
          ELSE <<Head(calls).w.post>>) \o ProgramKinds(Tail(calls))

IsPrefix(a, b) == Len(a) <= Len(b) /\ a = SubSeq(b, 1, Len(a))

Kinds(evs) == [i \in 1 .. Len(evs) |-> evs[i].type]

\* C10: the records of each thread appear in the file in the program order
\* of its top-level calls, the records of one call before any of the next;
\* every record of the file is one of them, and the file holds the records
\* in the order they were appended.
C10_ProgramOrder ==
    /\ \A t \in Threads :
          LET got  == Kinds(EventsOf(Trace, t))
              want == ProgramKinds(program[t])
          IN  /\ IsPrefix(got, want)
              /\ stack[t] = <<>> => got = want
              /\ stack[t] # <<>> => Len(want) - Len(got) <= 2
    /\ \A i \in 1 .. Len(Trace) : \E t \in Threads : Trace[i].tid = Nat64(Gettid(t))
    /\ Trace = appended

\* The main thread has finished two calls, a blocking one and then another,
\* and its three records are in the file.
C10_Witness ==
    /\ Len(program[MainThread]) = 2
    /\ stack[MainThread] = <<>>
    /\ program[MainThread][1].w.name \in BlockingNames
    /\ Len(EventsOf(Trace, MainThread)) = 3


(***************************************************************************)
(* The example target examples/deadlock.c under the shim.  main creates    *)
(* thread_1 and thread_2 and waits in pthread_join, which is not wrapped;  *)
(* thread_1 locks mutex_a then mutex_b, thread_2 mutex_b then mutex_a.     *)
(* Here thread 1 is thread_1 and thread 2 is thread_2, and the runs start  *)
(* when main has created both: its two ThreadCreate records are in the     *)
(* file.                                                                   *)
(***************************************************************************)
\* Wrapped calls each of thread_1 and thread_2 makes in one run, from the
\* start of its routine (the loop of deadlock.c runs 1000 times).
MaxProgramCalls == 2

\* gettid() of the thread running main
JoinerTid == 3

\* The body of the loop of thread_1 (deadlock.c:14-20) and of thread_2
\* (deadlock.c:31-37): the wrapped calls and their argument.
thread_body(t) ==
    LET a == IF t = 1 THEN Addr.mutex ELSE Addr.mutex_b
        b == IF t = 1 THEN Addr.mutex_b ELSE Addr.mutex
    IN  << [w |-> pthread_mutex_lock,   args |-> <<a>>],
           [w |-> pthread_mutex_lock,   args |-> <<b>>],
           [w |-> pthread_mutex_unlock, args |-> <<b>>],
           [w |-> pthread_mutex_unlock, args |-> <<a>>] >>

\* The record pthread_create(&t, NULL, thread_n, NULL) of main left
\* (deadlock.c:47-48, skeletonkey.cpp:670-672).
CreateRecord(n) ==
    [timestamp   |-> Nat64(n),
     tid         |-> Nat64(JoinerTid),
     type        |-> EventType.ThreadCreate,
     ptr1        |-> Nat64(Addr.thread + n),
     ptr2        |-> U64Zero,
     result      |-> 0,
     duration_ns |-> U64Zero,
     stack       |-> <<Nat64(1), Nat64(2 + EventType.ThreadCreate), Nat64(100)>>]

\* The next wrapped call of thread t's routine.
ProgramCall(t) ==
    /\ t \in started
    /\ stack[t] = <<>>
    /\ Len(program[t]) < MaxProgramCalls
    /\ LET c == thread_body(t)[(Len(program[t]) % Len(thread_body(t))) + 1]
       IN  Enter(t, stack[t], c.w, c.args, "target")
    /\ ncalls' = ncalls + 1
    /\ UNCHANGED <<shimFrame, mutex_owner, writer_, started, last_ret>>
    /\ UNCHANGED <<traceVars, readerVars, codecVars>>

InitDeadlock ==
    /\ real_ = Symbols
    /\ initialized_ = TRUE
    /\ log_open = TRUE
    /\ init_pc = "done"
    /\ scenario = {pthread_mutex_lock, pthread_mutex_unlock}
    /\ mutex_owner = [m \in Mutexes |-> NoThread]
    /\ writer_ = Serialize(CreateRecord(2))
    /\ clock = 3
    /\ in_hook = [t \in Threads |-> FALSE]
    /\ stack = [t \in Threads |-> <<>>]
    /\ started = Threads
    /\ ncalls = 0
    /\ program = [t \in Threads |-> <<>>]
    /\ last_ret = [t \in Threads |-> NoRet]
    /\ appended = <<CreateRecord(1), CreateRecord(2)>>
    /\ file = Serialize(CreateRecord(1)) \o Serialize(CreateRecord(2))
    /\ ReaderIdle
    /\ CodecIdle

NextDeadlock ==
    \/ \E t \in Threads : ProgramCall(t)
    \/ \E t \in Threads : LogPre(t)
    \/ \E t \in Threads : Real(t)
    \/ \E t \in Threads : LogPost(t)
    \/ \E t \in Threads : Return(t)
    \/ \E t \in Threads : GuardedReal(t)
    \/ \E t \in Threads : LogLockCall(t)
    \/ \E t \in Threads : LogFill(t)
    \/ \E t \in Threads : LogBody(t)
    \/ \E t \in Threads : LogWrite(t)
    \/ \E t \in Threads : LogUnlockCall(t)

SpecDeadlock == InitDeadlock /\ [][NextDeadlock]_vars


(***************************************************************************)
(* Properties of loading                                                   *)
(***************************************************************************)
\* The records thread t has put into the file since frame f was entered.
EventsSince(t, f) == EventsOf(DecodeFrom(file, f.f0), t)

\* C11 (as claimed): once the library is loaded, a call of a wrapper whose
\* real_ pointer stayed null puts no record into the file and does not
\* kill the process.
C11_PassThrough ==
    initialized_ =>
        \A t \in Threads : \A f \in Frames(t) :
            (f.fn = "wrapper" /\ f.src = "target" /\ f.w.sym \notin real_) =>
                /\ f.pc # "segv"
                /\ EventsSince(t, f) = <<>>

\* C12: when log_.open failed in init, nothing ever reaches the file, no
\* call kills the process, and every invocation that returned made its one
\* real call with its own arguments and returned that call's value.
C12_OpenFailedNoOp ==
    (init_pc = "done" /\ ~log_open /\ real_ = Symbols) =>
        /\ file = <<>>
        /\ \A t \in Threads :
              /\ ~Crashed(t)
              /\ HasReturned(t) =>
                    /\ last_ret[t].nreal = 1
                    /\ last_ret[t].realargs = last_ret[t].args
                    /\ last_ret[t].ret = last_ret[t].realret

\* The open failed and a blocking call, whose two log calls ran to their
\* end, has returned the error of its real call.
C12_Witness ==
    /\ init_pc = "done"
    /\ ~log_open
    /\ real_ = Symbols
    /\ \E t \in Threads :
          /\ JustReturned(t)
          /\ stack[t] = <<>>
          /\ last_ret[t].name \in BlockingNames
          /\ last_ret[t].ret # 0
          /\ writer_ # <<>>

\* C13 (as claimed): a wrapper called before the constructor has finished
\* calls the real function, returns, and puts no record into the file.
C13_ForwardBeforeInit ==
    ~initialized_ =>
        /\ file = <<>>
        /\ \A t \in Threads : ~Crashed(t)


(***************************************************************************)
(* Properties of the shim under examples/deadlock.c                        *)
(***************************************************************************)
\* Both threads wait in the real pthread_mutex_lock for a mutex the other
\* holds.
Deadlocked ==
    \A t \in Threads :
        /\ InWrapper(t, "real")
        /\ Top(t).w.name = "pthread_mutex_lock"
        /\ mutex_owner[Top(t).args[1]] \notin {t, NoThread}

\* C14: when a top-level blocking wrapper is about to call the real
\* function, its pre-event is the one record its thread has added to the
\* file; when a wrapper is about to return, its terminal event is the last
\* record of its thread in the file; and when the two threads have
\* deadlocked, the last record of each in the file is the MutexLock
\* pre-event for the mutex it waits for.
C14_FlushedBeforeProceeding ==
    /\ \A t \in Threads :
          /\ (InWrapper(t, "real") /\ ~Top(t).nested /\ IsBlocking(Top(t).w)) =>
                LET evs == EventsSince(t, Top(t))
                IN  /\ Len(evs) = 1
                    /\ evs[1].type = Top(t).w.pre
                    /\ evs[1].ptr1 = Nat64(Top(t).args[1])
          /\ (InWrapper(t, "exit") /\ ~Top(t).nested) =>
                LET evs == EventsSince(t, Top(t))
                IN  /\ evs # <<>>
                    /\ Last(evs).type = Top(t).w.post
                    /\ Last(evs).result = Top(t).result
    /\ Deadlocked =>
          \A t \in Threads :
              LET evs == EventsOf(Trace, t)
              IN  /\ evs # <<>>
                  /\ Last(evs).type = EventType.MutexLock
                  /\ Last(evs).ptr1 = Nat64(Top(t).args[1])
                  /\ Len(evs) = 3

\* thread_1 holds mutex_a and waits for mutex_b, thread_2 holds mutex_b and
\* waits for mutex_a.
C14_Witness ==
    /\ Deadlocked
    /\ mutex_owner[Addr.mutex] = 1
    /\ mutex_owner[Addr.mutex_b] = 2
    /\ Len(Trace) = 8


(***************************************************************************)
(* Properties of the events a wrapper logs                                 *)
(***************************************************************************)
\* The kind each wrapper without a pre-event logs.
TerminalKind ==
    [pthread_mutex_init     |-> EventType.MutexInit,
     pthread_mutex_destroy  |-> EventType.MutexDestroy,
     pthread_mutex_unlock   |-> EventType.MutexUnlock,
     pthread_rwlock_init    |-> EventType.RWLockInit,
     pthread_rwlock_destroy |-> EventType.RWLockDestroy,
     pthread_rwlock_unlock  |-> EventType.RWLockUnlock,
     pthread_cond_init      |-> EventType.CondInit,
     pthread_cond_destroy   |-> EventType.CondDestroy,
     pthread_cond_signal    |-> EventType.CondSignal,
     pthread_cond_broadcast |-> EventType.CondBroadcast,
     pthread_create         |-> EventType.ThreadCreate]

\* C15: a top-level call of a wrapper that is not blocking has put no
\* record into the file when it is about to call the real function, and
\* exactly one when it has returned: of its kind, with the caller's tid and
\* first argument, and duration_ns 0.
C15_SingleEvent ==
    \A t \in Threads :
        /\ (JustReturned(t) /\ last_ret[t].name \notin BlockingNames) =>
              LET evs == last_ret[t].evs
              IN  /\ Len(evs) = 1
                  /\ evs[1].type = TerminalKind[last_ret[t].name]
                  /\ evs[1].tid = Nat64(Gettid(t))
                  /\ evs[1].ptr1 = Nat64(last_ret[t].args[1])
                  /\ evs[1].duration_ns = U64Zero
        /\ (InWrapper(t, "real") /\ ~Top(t).nested /\ ~IsBlocking(Top(t).w)) =>
              EventsSince(t, Top(t)) = <<>>

\* A pthread_create that failed has returned and left its record.
C15_Witness ==
    \E t \in Threads :
        /\ JustReturned(t)
        /\ last_ret[t].name = "pthread_create"
        /\ last_ret[t].ret # 0
        /\ Len(last_ret[t].evs) = 1

\* C16: every record of a pre kind in the file has result 0 and
\* duration_ns 0.
C16_PreEventZero ==
    \A i \in 1 .. Len(Trace) :
        Trace[i].type \in PreEventTypes =>
            /\ Trace[i].result = 0
            /\ Trace[i].duration_ns = U64Zero

\* A pre-event is in the file together with its Done event, which carries
\* an error and a duration.
C16_Witness ==
    \E i, j \in 1 .. Len(Trace) :
        /\ i < j
        /\ Trace[i].tid = Trace[j].tid
        /\ Trace[i].type \in PreEventTypes
        /\ Trace[j].type = DoneOf(Trace[i].type)
        /\ Trace[j].result # 0
        /\ Trace[j].duration_ns # U64Zero

\* C17: the last record a returned top-level invocation put into the file
\* carries the value the wrapper returned as its result.
C17_ResultLogged ==
    \A t \in Threads :
        JustReturned(t) =>
            /\ last_ret[t].evs # <<>>
            /\ Last(last_ret[t].evs).result = last_ret[t].ret

\* Both threads have returned from a top-level call, one with 0 and one
\* with an error.
C17_Witness ==
    \E t, u \in Threads :
        /\ JustReturned(t)
        /\ JustReturned(u)
        /\ last_ret[t].ret = 0
        /\ last_ret[u].ret # 0
        /\ last_ret[u].name \in BlockingNames

\* C18 (as claimed): the stopwatch of a blocking wrapper is started after
\* its pre-event was emitted: when the wrapper is about to call the real
\* function, the start of its stopwatch is not before the timestamp of
\* its pre-event.
C18_StopwatchAfterPre ==
    \A t \in Threads :
        (InWrapper(t, "real") /\ ~Top(t).nested /\ IsBlocking(Top(t).w)) =>
            \A i \in 1 .. Len(EventsSince(t, Top(t))) :
                Leq64(EventsSince(t, Top(t))[i].timestamp, Nat64(Top(t).start))

\* C19: in_hook of a thread is set exactly while the thread is inside a
\* wrapper: a top-level invocation sets it and clears it before it returns,
\* a guarded invocation leaves it as it is.
C19_HookFlag ==
    \A t \in Threads : in_hook[t] <=> stack[t] # <<>>

\* A guarded invocation made from a signal handler has returned, and the
\* invocation it interrupted is about to return.
C19_Witness ==
    \E t \in Threads :
        /\ HasReturned(t)
        /\ last_ret[t].nested
        /\ last_ret[t].src = "signal"
        /\ InWrapper(t, "exit")
        /\ in_hook[t]

\* C20: a call the target makes from a thread that is outside every
\* wrapper takes the logging path whatever the other threads' in_hook, and
\* has put a record into the file when it returns.
C20_FlagPerThread ==
    \A t \in Threads :
        /\ \A f \in Frames(t) :
              (f.fn = "wrapper" /\ f.src = "target") => (~f.nested /\ f.pc # "guarded")
        /\ (HasReturned(t) /\ last_ret[t].src = "target") =>
              /\ ~last_ret[t].nested
              /\ last_ret[t].evs # <<>>

\* The thread that called pthread_create is still inside that wrapper, and
\* the thread it created has returned from a call that was logged.
C20_Witness ==
    \E t, u \in Threads :
        /\ t # u
        /\ in_hook[u]
        /\ InWrapper(u, "post")
        /\ Top(u).w.name = "pthread_create"
        /\ JustReturned(t)
        /\ last_ret[t].evs # <<>>

(***************************************************************************)
(* Properties of the record's fields                                       *)
(***************************************************************************)
\* Where the result field of the i-th record of the trace begins in the file.
ResultOffset(i) ==
    Len(SerializeAll(SubSeq(appended, 1, i - 1)))
        + Len(SerializeHead(appended[i]))
        + Len(writePtr(appended[i].ptr1)) + Len(writePtr(appended[i].ptr2))

\* C21: the result of a record is written as the varint of its
\* two's-complement reinterpretation as a 64-bit value, which takes exactly
\* ten bytes when the result is negative, and the decoder gets back the
\* same signed 32-bit result, negative or not.
C21_SignedResult ==
    /\ \A i \in 1 .. Len(appended) :
          LET r   == appended[i].result
              rd  == readVarInt(file, ResultOffset(i))
          IN  /\ rd.value = SignExtend64(r)
              /\ ~rd.ub
              /\ ToInt32(rd.value) = r
              /\ r < 0 => rd.pos - ResultOffset(i) = 10
              /\ r >= 0 => rd.value = Nat64(r)
    /\ (rstate \in {"loop", "exit0"} /\ buffer_ = file) =>
          \A i \in 1 .. Len(out) : out[i].result = appended[i].result

\* The decoder has printed a record with result -1 and a record with a
\* positive result.
C21_Witness ==
    /\ rstate = "exit0"
    /\ buffer_ = file
    /\ Len(out) = 2
    /\ out[1].result = 0 - 1
    /\ out[2].result = Errno.ETIMEDOUT
    /\ ~r_oob

\* The kinds of the two condition waits.
CondWaitKinds ==
    {EventType.CondWait, EventType.CondWaitDone,
     EventType.CondTimedWait, EventType.CondTimedWaitDone}

\* C22: ptr2 of a record is zero unless the record is a CondWait,
\* CondWaitDone, CondTimedWait or CondTimedWaitDone; the records of a
\* condition wait carry the mutex argument of that call as ptr2.
C22_AuxPointer ==
    /\ \A i \in 1 .. Len(Trace) :
          Trace[i].type \notin CondWaitKinds => Trace[i].ptr2 = U64Zero
    /\ \A t \in Threads :
          HasReturned(t) =>
              \A i \in 1 .. Len(last_ret[t].evs) :
                  LET ev == last_ret[t].evs[i]
                  IN  /\ ev.type \in CondWaitKinds <=> last_ret[t].name \in CondWaitNames
                      /\ ev.type \in CondWaitKinds =>
                             ev.ptr2 = Nat64(last_ret[t].args[2])

\* A condition wait has returned with its two records carrying the mutex,
\* and the trace holds a record of another kind as well.
C22_Witness ==
    /\ \E t \in Threads :
          /\ JustReturned(t)
          /\ last_ret[t].name \in CondWaitNames
          /\ Len(last_ret[t].evs) = 2
          /\ last_ret[t].evs[1].ptr2 = Nat64(Addr.mutex)
          /\ last_ret[t].evs[2].ptr2 = Nat64(Addr.mutex)
    /\ \E i \in 1 .. Len(Trace) : Trace[i].type \notin CondWaitKinds

(***************************************************************************)
(* Null objects.  The wrappers hand their first argument to log and to the *)
(* real function as it comes (e.g. skeletonkey.cpp:321-323), so a target   *)
(* that passes a null pointer gets it logged.  What the real function does *)
(* with a null object is undefined: it faults or it returns an error.      *)
(***************************************************************************)
\* The arguments of a call whose object pointer is null.
NullArgs(w) == [TargetArgs(w) EXCEPT ![1] = 0]

\* The target calls an interposed function with a null object.
TargetCallNull(t, w) ==
    /\ t \in started
    /\ stack[t] = <<>>
    /\ ncalls < MaxCalls
    /\ w \in scenario
    /\ Enter(t, stack[t], w, NullArgs(w), "target")
    /\ ncalls' = ncalls + 1
    /\ UNCHANGED <<shimFrame, mutex_owner, writer_, started, last_ret>>
    /\ UNCHANGED <<traceVars, readerVars, codecVars>>

\* real_...(nullptr): the real function dereferences the null object and
\* the process is killed, all its threads with it.
RealFault(t) ==
    /\ InWrapper(t, "real") \/ InWrapper(t, "guarded")
    /\ Top(t).w.sym \in real_
    /\ Top(t).args[1] = 0
    /\ stack' = [stack EXCEPT ![t] = SetTop(@, [Top(t) EXCEPT !.pc = "segv"])]
    /\ started' = {}
    /\ UNCHANGED <<shimFrame, mutex_owner, writer_, clock, in_hook, ncalls, program,
                   last_ret>>
    /\ UNCHANGED <<traceVars, readerVars, codecVars>>

NextNullArg ==
    \/ Next
    \/ \E t \in Threads, w \in Wrappers : TargetCallNull(t, w)
    \/ \E t \in Threads : RealFault(t)

SpecNullArg == Init /\ [][NextNullArg]_vars

\* C23 (as claimed): ptr1 of every record of the trace is non-zero,
\* whatever calls the target makes.
C23_Ptr1NonZero ==
    \A i \in 1 .. Len(Trace) : Trace[i].ptr1 # U64Zero

\* Where the stack of the i-th record of the trace begins in the file:
\* behind its result and its duration.
StackOffset(i) == readVarInt(file, readVarInt(file, ResultOffset(i)).pos).pos

\* Where the i-th record of the trace ends in the file.
RecordEnd(i) == Len(SerializeAll(SubSeq(appended, 1, i)))

\* C24: every record written holds between 0 and 16 stack addresses, the
\* ones backtrace returned, and the length written before them is their
\* number: reading that many addresses ends where the record ends.
C24_StackBounded ==
    /\ Len(file) = RecordEnd(Len(appended))
    /\ \A i \in 1 .. Len(appended) :
          LET depth == readVarInt(file, StackOffset(i))
              st    == readStack(file, StackOffset(i))
          IN  /\ Len(appended[i].stack) \in 0 .. MAX_STACK_DEPTH
              /\ depth.value = Nat64(Len(appended[i].stack))
              /\ st.value = appended[i].stack
              /\ st.pos = RecordEnd(i)
              /\ ~st.ub

\* The file holds a record of the main thread with its three frames and a
\* record of the other thread, whose seventeen frames were cut to sixteen.
C24_Witness ==
    /\ \E i \in 1 .. Len(appended) :
          /\ Len(appended[i].stack) = MAX_STACK_DEPTH
          /\ appended[i].tid # Nat64(Gettid(MainThread))
    /\ \E i \in 1 .. Len(appended) :
          /\ Len(appended[i].stack) = 3
          /\ appended[i].tid = Nat64(Gettid(MainThread))
    /\ \E t \in Threads :
          /\ InLog(t, "unlock")
          /\ Len(stack[t]) + Len(TargetFrames(t)) > MAX_STACK_DEPTH

\* C25 (as claimed): run on a whole trace, the decoder prints for each
\* record the record's timestamp minus the timestamp of the first record
\* of the file, also when the first record's timestamp is 0.
C25_TimeSinceFirst ==
    (rstate \in {"loop", "exit0"} /\ buffer_ = file) =>
        /\ Len(elapsed) = Len(out)
        /\ \A i \in 1 .. Len(out) :
              elapsed[i] = Sub64(out[i].timestamp, appended[1].timestamp)

\* C26: the timestamps of the records in the file never decrease from one
\* record to the next, whichever threads wrote them.
C26_GlobalMonotonic ==
    \A i \in 1 .. Len(Trace) - 1 :
        Leq64(Trace[i].timestamp, Trace[i + 1].timestamp)

\* The file holds a record of one thread between two records of the other.
C26_Witness ==
    /\ Len(Trace) >= 3
    /\ \E i \in 2 .. Len(Trace) - 1 :
          /\ Trace[i - 1].tid # Trace[i].tid
          /\ Trace[i + 1].tid # Trace[i].tid

\* Thread t is on the logging path of a wrapper, at its call of the real
\* function.
AtLoggedReal(t) == InWrapper(t, "real") /\ ~Top(t).nested

\* C27: a thread that is at the real call of a wrapper's logging path does
\* not hold write_mutex_, and a thread holds write_mutex_ only inside a log
\* call that has taken it and not yet returned; so while one thread waits
\* in a real lock, write_mutex_ is free or held by a thread inside log.
C27_NoLockAcrossReal ==
    \A t \in Threads :
        /\ AtLoggedReal(t) => mutex_owner[Addr.write_mutex_] # t
        /\ mutex_owner[Addr.write_mutex_] = t =>
              \E f \in Frames(t) :
                  f.fn = "log" /\ f.pc \in {"fill", "body", "write", "unlock", "ret"}

\* One thread waits in the real pthread_mutex_lock for a mutex the other
\* holds, its pre-event in the file, while the other thread is inside log
\* with write_mutex_ and about to write a record.
C27_Witness ==
    \E t, u \in Threads :
        /\ t # u
        /\ AtLoggedReal(t)
        /\ ~RealEnabled(t, Top(t).w.sym, Top(t).args)
        /\ mutex_owner[Top(t).args[1]] = u
        /\ EventsSince(t, Top(t)) # <<>>
        /\ InLog(u, "write")
        /\ mutex_owner[Addr.write_mutex_] = u

\* C28 (as claimed): a log call that has passed the initialized_ check and
\* written to the stream did so after log_.open in init had completed.
C28_OpenBeforeLog ==
    \A t \in Threads : \A f \in Frames(t) :
        (f.fn = "log" /\ f.pc \in {"unlock", "ret"}) => init_pc = "done"

(***************************************************************************)
(* The decoder on any file.  Besides the traces the logger wrote and their *)
(* prefixes, the decoder is given files of other bytes; it runs on without *)
(* pause until main returns or the process is killed.                      *)
(***************************************************************************)
\* Files that are no traces: bytes whose continuation bit never clears, a
\* record that announces forty addresses and holds one, a record that
\* announces 2^32 - 1 addresses, a record followed by a stray byte, and
\* three short ones.
MalformedBuffers ==
    { [i \in 1 .. 12 |-> 255],
      <<5, 7, 3, 128, 32, 0, 0, 0, 40, 9>>,
      <<5, 7, 3, 128, 32, 0, 0, 0, 255, 255, 255, 255, 15>>,
      <<5, 7, 3, 128, 32, 0, 0, 0, 0, 200>>,
      <<0>>, <<128>>, <<1, 2, 3>> }

\* reader.cpp:199-208 on a file of such bytes.
ReaderLoadBytes(bytes) ==
    /\ rstate = "closed"
    /\ file = <<>>
    /\ buffer_' = bytes
    /\ pos_' = 0
    /\ first_timestamp' = U64Zero
    /\ rstate' = "loop"
    /\ UNCHANGED <<out, elapsed, r_oob, shimVars, traceVars, codecVars>>

\* The turn of the loop in which stack.reserve(depth) throws
\* std::bad_alloc (reader.cpp:95): nothing catches it and the process aborts.
ReaderAbort ==
    /\ rstate = "loop"
    /\ ~eof(buffer_, pos_)
    /\ ReadRecord(buffer_, pos_, 0).bad_alloc
    /\ rstate' = "aborted"
    /\ UNCHANGED <<buffer_, pos_, first_timestamp, out, elapsed, r_oob, shimVars,
                   traceVars, codecVars>>

\* The decoder's own steps.
ReaderRun ==
    \/ \E oob \in OobBytes : ReaderStep(oob)
    \/ ReaderCrash
    \/ ReaderAbort
    \/ ReaderExit

NextDecoder ==
    \/ \E ev \in SampleEvents : TraceAppend(ev)
    \/ \E n \in 0 .. Len(file) : ReaderLoad(n)
    \/ \E bytes \in MalformedBuffers : ReaderLoadBytes(bytes)
    \/ \E oob \in OobBytes : ReaderStep(oob)
    \/ ReaderCrash
    \/ ReaderAbort
    \/ ReaderExit

SpecDecoder == InitReader /\ [][NextDecoder]_vars /\ WF_vars(ReaderRun)

\* The decoder has stopped: main returned, or the process was killed by a
\* fault or by the uncaught exception.
ReaderStopped == rstate \in {"exit0", "crashed", "aborted"}

\* C29: on every file the decoder's loop comes to an end: a turn of the
\* loop moves pos_ forward by at least one byte and leaves the buffer as it
\* is, main returns only with pos_ at or behind the end of the buffer, and
\* a decoder in the loop stops.
C29_DecoderTerminates ==
    /\ [][(rstate = "loop" /\ rstate' = "loop") =>
             (pos_' >= pos_ + 1 /\ buffer_' = buffer_)]_vars
    /\ [](rstate = "exit0" => pos_ >= Len(buffer_))
    /\ (rstate = "loop") ~> ReaderStopped

\* main has returned on a file that is no trace, with pos_ behind the end
\* of the buffer and records printed.
C29_Witness ==
    /\ rstate = "exit0"
    /\ buffer_ \in MalformedBuffers
    /\ pos_ > Len(buffer_)
    /\ Len(out) >= 2
    /\ r_oob

====
